---- MODULE Spec2Model ----
(***************************************************************************)
(* A model of waku-dispatcher: the Dispatcher class (registration table,   *)
(* decryption keys, duplicate cache, dispatch pipeline, emit) and the      *)
(* Store class it persists inbound messages to.                            *)
(*                                                                         *)
(* Two snapshots of the dispatcher are in the source tree and both are     *)
(* modelled; the variable `version` says which one a behaviour runs:       *)
(*   "new"  src/unnamed/part_002 (dispatcher) + src/unnamed/part_000       *)
(*          (store)                                                        *)
(*   "old"  src/src/dispatcher.ts (dispatcher) + src/src/storage/store.ts  *)
(*          (store)                                                        *)
(*                                                                         *)
(* Cryptography, JSON and keccak256 are modelled symbolically: a           *)
(* ciphertext names the key it was made for, a signature names the wallet  *)
(* that made it and the text it was made over, a hash is the tuple of the  *)
(* hashed fields (keccak256 taken to be collision free).                   *)
(***************************************************************************)
EXTENDS Integers, Sequences, FiniteSets, TLC

(***************************************************************************)
(* Bounds of the model.                                                    *)
(***************************************************************************)
MaxDispatch   == 2    \* dispatch calls started in one behaviour of Spec
MaxRouteCalls == 1    \* dispatch calls started in one behaviour of SpecRoute

Versions == {"old", "new"}

(***************************************************************************)
(* Content topics, pubsub topic, message types.                            *)
(***************************************************************************)
DefaultTopic  == "ct0"          \* the constructor's contentTopic
OtherTopic    == "ct1"
ContentTopics == {DefaultTopic, OtherTopic}
PubsubTopic   == "ps0"

(***************************************************************************)
(* Keys.  An asymmetric pair is (private "sk1", public "pk1"); "sym1" is a *)
(* shared secret.  KeyType as in the source (the spelling is the source's).*)
(***************************************************************************)
Symmetric == "Symmetric"
Asymetric == "Asymetric"

PublicOf(sk) == IF sk = "sk1" THEN "pk1" ELSE IF sk = "sk2" THEN "pk2" ELSE "none"
IsPublicKey(k) == k \in {"pk1", "pk2"}

(***************************************************************************)
(* Application payload values and their JSON texts.                        *)
(*   value  [t |-> "string"|"map"|"date"|"object", v |-> name]             *)
(*   json   [j |-> "string"|"mapobj"|"emptyobj", v |-> name]               *)
(* A Date serialises to its ISO string (named like the date); a Map        *)
(* serialises to {} unless the replacer rewrites it.                       *)
(***************************************************************************)
StrVal(s)  == [t |-> "string", v |-> s]
MapVal(m)  == [t |-> "map",    v |-> m]
DateVal(d) == [t |-> "date",   v |-> d]
ObjVal     == [t |-> "object", v |-> ""]

\* function replacer(key, value): Map -> {dataType:'Map', value:[...entries]}
replacer(val) ==
    IF val.t = "map" THEN [j |-> "mapobj", v |-> val.v]
    ELSE IF val.t = "object" THEN [j |-> "emptyobj", v |-> ""]
    ELSE [j |-> "string", v |-> val.v]         \* string, or Date.toJSON()

\* JSON.stringify(value) with no replacer: a Map has no enumerable fields
stringifyPlain(val) ==
    IF val.t \in {"map", "object"} THEN [j |-> "emptyobj", v |-> ""]
    ELSE [j |-> "string", v |-> val.v]

\* JSON.parse with no reviver: every object stays a plain object
plainParse(js) ==
    IF js.j \in {"mapobj", "emptyobj"} THEN ObjVal ELSE StrVal(js.v)

\* function reviver(key, value): {dataType:'Map', ...} -> Map
reviver(js) ==
    IF js.j = "mapobj" THEN MapVal(js.v)
    ELSE IF js.j = "emptyobj" THEN ObjVal
    ELSE StrVal(js.v)

(***************************************************************************)
(* Signatures.  [kind, by, over]: kind "none" is an absent signature,      *)
(* "valid" one made by wallet address `by` over the text `over`,           *)
(* "malformed" bytes that are no signature at all.                         *)
(* The signed text is JSON.stringify of the envelope whose signature is    *)
(* undefined (and so omitted): type, payload, timestamp, signer.           *)
(***************************************************************************)
SigText(typ, pjson, ts, signer) ==
    [type |-> typ, payload |-> pjson, timestamp |-> ts, signer |-> signer]
NoText == SigText("", [j |-> "string", v |-> ""], 0, "")
NoSig  == [kind |-> "none", by |-> "", over |-> NoText]
signMessageSync(wallet, text) == [kind |-> "valid", by |-> wallet, over |-> text]
MalformedSig == [kind |-> "malformed", by |-> "", over |-> NoText]

\* ethers.verifyMessage(text, signature): the address recovered; a signature
\* over another text recovers some unrelated address; a malformed one throws.
verifyMessage(text, sig) ==
    IF sig.kind = "malformed" THEN "throw"
    ELSE IF sig.over = text THEN sig.by
    ELSE "0xunrelated"

(***************************************************************************)
(* IDispatchMessage (the envelope) and its JSON text.                      *)
(*   envelope  [type, payload (value), timestamp, signature, signer]       *)
(*   text      [wf, type, payload (json), timestamp, signature, signer]    *)
(* timestamp 0 stands for an absent (undefined) timestamp and signer ""    *)
(* for an absent signer: JSON.stringify omits undefined fields and a       *)
(* missing field reads back as undefined.  wf = FALSE is a text that is    *)
(* not JSON.                                                               *)
(***************************************************************************)
Envelope(typ, val, ts, sig, signer) ==
    [type |-> typ, payload |-> val, timestamp |-> ts, signature |-> sig,
     signer |-> signer]

\* JSON.stringify(dmsg, replacer)
stringifyEnvelope(dmsg) ==
    [wf |-> TRUE, type |-> dmsg.type, payload |-> replacer(dmsg.payload),
     timestamp |-> dmsg.timestamp, signature |-> dmsg.signature,
     signer |-> dmsg.signer]

\* JSON.stringify(dmsg) of an envelope whose signature is undefined: the text
\* a wallet signs and verifySender recomputes
stringifyUnsigned(dmsg) ==
    SigText(dmsg.type, stringifyPlain(dmsg.payload), dmsg.timestamp, dmsg.signer)

GarbageText ==
    [wf |-> FALSE, type |-> "", payload |-> [j |-> "string", v |-> ""],
     timestamp |-> 0, signature |-> NoSig, signer |-> ""]

\* JSON.parse(text, reviver) of a well-formed text
parseEnvelope(text) ==
    Envelope(text.type, reviver(text.payload), text.timestamp, text.signature,
             text.signer)

(***************************************************************************)
(* Payload bytes on the wire: [enc, to, text].  enc is "none" for UTF-8    *)
(* plaintext, or the KeyType of the encryption; `to` is the key the        *)
(* ciphertext was made for (a public key, or the shared secret).           *)
(***************************************************************************)
utf8ToBytes(text) == [enc |-> "none", to |-> "", text |-> text]

\* encrypt(publicKey, bytes) of ecies.js, encryptSymmetric(bytes, key)
encryptBytes(keyType, key, bytes) == [enc |-> keyType, to |-> key, text |-> bytes.text]

\* decrypt(privateKey, bytes) / decryptSymmetric(bytes, key) succeeds
CanDecrypt(k, bytes) ==
    \/ k.type = Asymetric /\ bytes.enc = Asymetric /\ bytes.to = PublicOf(k.key)
    \/ k.type = Symmetric /\ bytes.enc = Symmetric /\ bytes.to = k.key

\* Dispatcher.decrypt: the keys in order from index i, the first success wins
\* and breaks the loop; a key that fails throws inside the loop's try and the
\* catch only logs.  tried lists the indices of the keys that were attempted,
\* raised says whether an error left decrypt.
RECURSIVE decryptFrom(_, _, _)
decryptFrom(keys, i, bytes) ==
    IF i > Len(keys)
    THEN [payload |-> bytes, encrypted |-> FALSE, tried |-> <<>>, raised |-> FALSE]
    ELSE IF CanDecrypt(keys[i], bytes)
         THEN [payload |-> utf8ToBytes(bytes.text), encrypted |-> TRUE,
               tried |-> <<i>>, raised |-> FALSE]
         ELSE LET rest == decryptFrom(keys, i + 1, bytes)
              IN [rest EXCEPT !.tried = <<i>> \o @]

\* a loop without the break: every key is attempted
tryEveryKey(keys, bytes) ==
    [decryptFrom(keys, 1, bytes) EXCEPT !.tried = [j \in 1..Len(keys) |-> j]]

\* a loop without the catch: the first failing key ends decrypt with its error
failFast(keys, bytes) ==
    IF keys # <<>> /\ ~CanDecrypt(keys[1], bytes)
    THEN [payload |-> bytes, encrypted |-> FALSE, tried |-> <<1>>, raised |-> TRUE]
    ELSE decryptFrom(keys, 1, bytes)

decrypt(keys, bytes) == decryptFrom(keys, 1, bytes)

\* Dispatcher.decryptMessage: decrypt, then JSON.parse(bytesToUtf8(..), reviver).
\* threw = TRUE when JSON.parse throws (ciphertext or garbage is no JSON).
decryptMessage(keys, bytes) ==
    LET d == decrypt(keys, bytes)
        parsable == d.payload.enc = "none" /\ d.payload.text.wf
    IN [threw     |-> ~parsable,
        dmsg      |-> IF parsable THEN parseEnvelope(d.payload.text)
                      ELSE parseEnvelope(GarbageText),
        encrypted |-> d.encrypted]

(***************************************************************************)
(* Dispatcher.verifySender.  verifySenderThrows: ethers.verifyMessage      *)
(* throws (the exception leaves verifySender).                             *)
(***************************************************************************)
verifySenderThrows(dmsg) ==
    /\ dmsg.signature.kind # "none"
    /\ verifyMessage(stringifyUnsigned(dmsg), dmsg.signature) = "throw"

\* a verification that accepts whatever carries a signature
AcceptAnySigned(dmsg) == dmsg.signature.kind # "none"

verifySender(dmsg) ==
    IF dmsg.signature.kind = "none" THEN FALSE
    ELSE LET signer == verifyMessage(stringifyUnsigned(dmsg), dmsg.signature)
         IN IF signer # dmsg.signer THEN FALSE ELSE TRUE

(***************************************************************************)
(* Transport messages (IDecodedMessage):                                   *)
(*   [contentTopic, payload (bytes), timestamp, pubsubTopic, ephemeral]    *)
(* timestamp is a Date in milliseconds, 0 standing for undefined.          *)
(***************************************************************************)
MsPerSecond == 1000

\* Date.prototype.toString(): the date down to the second
DateToString(ts) == ts \div MsPerSecond

WakuMessage(ct, bytes, ts, eph) ==
    [contentTopic |-> ct, payload |-> bytes, timestamp |-> ts,
     pubsubTopic |-> PubsubTopic, ephemeral |-> eph]

\* keccak256(contentTopic ++ payload ++ timestamp.toString() ++ pubsubTopic)
HashOf(msg) ==
    <<msg.contentTopic, msg.payload, DateToString(msg.timestamp), msg.pubsubTopic>>

\* msg.timestamp!.toString() of an undefined timestamp throws a TypeError
HashThrows(msg) == msg.timestamp = 0

(***************************************************************************)
(* Callbacks.  A callback is known by a name; CallbackSource is what its   *)
(* toString() returns (two closures may share their source text);          *)
(* CallbackThrows says the callback throws when it is invoked.             *)
(***************************************************************************)
Callbacks == {"cbA", "cbA2", "cbV", "cbE", "cbT", "cbThrow"}
CallbackSource(cb) == IF cb \in {"cbA", "cbA2"} THEN "srcA" ELSE cb
CallbackThrows(cb) == cb = "cbThrow"

MessageTypes == {"hello", "nobody"}

\* an optional boolean argument: "undefined", "true" or "false"
Truthy(x) == x = "true"

(***************************************************************************)
(* The state.                                                              *)
(***************************************************************************)
VARIABLES
    version,          \* which snapshot of the dispatcher runs
    mapping,          \* Dispatcher.mapping: type -> sequence of DispachInfo
                      \* (<<>> for a type the Map does not hold)
    decryptionKeys,   \* Dispatcher.decryptionKeys: sequence of [key, type]
    autoEncrypt,      \* Dispatcher.autoEncrypt
    autoEncryptKeyId, \* Dispatcher.autoEncryptKeyId (index from 0; -1 undefined)
    msgHashes,        \* Dispatcher.msgHashes: the duplicate cache
    running,          \* Dispatcher.running
    startPc,          \* an in-flight start(): [at, decoders], at is "idle",
                      \* "waitPeer" or "subscribe"
    stopPc,           \* where an in-flight stop() is: "idle", "unsubscribe"
    subscription,     \* Dispatcher.subscription: [obj, topics], obj says whether the
                      \* field holds a subscription object, topics are its decoders'
    transportSubs,    \* topics the transport still pushes to this.dispatch
    hearbeatInterval, \* Dispatcher.hearbeatInterval: "none", "set" or "cleared"
    filterConnected,  \* Dispatcher.filterConnected
    db,               \* the Store's object store "message": a set of StoreMsg
    network,          \* what the transport holds: [relay, archive, sent], the
                      \* messages it pushes to subscribers, those its store nodes
                      \* keep, and a record of every emit that published one
    app,              \* the calls the application has still to make, in order
    calls,            \* every dispatch call so far, with its position
    log,              \* store.set calls and callback invocations, in order
    escaped,          \* errors that left dispatch: rejections, unhandled rejections
    epoch,            \* how often the duplicate cache has been reset
    resubscribing,    \* Dispatcher.resubscribing (old): the latch of checkSubscription
    resubscribeAttempts, \* Dispatcher.resubscribeAttempts (old)
    checkPc,          \* where the checkSubscription call that holds the latch is:
                      \* [at, had], at is "idle", "ping", "unsubscribeAll",
                      \* "create", "subscribe", "query" or "sleep"; had says
                      \* whether this.subscription was set when the attempt began
    subOps,           \* the transport calls of checkSubscription as they settled,
                      \* in order, and a "done" where a call ended: the last
                      \* OpsKept of them
    checks,           \* how many checkSubscription calls were made
    disconnects,      \* how many peer:disconnect events the listener of start() got
    clock,            \* what new Date() gives, in ms
    localPc,          \* where the dispatchLocalQuery call in flight is: [at,
                      \* messages, i, start, waiting], at is "idle", "replay",
                      \* "await", "query", "done" or "rejected"
    queries,          \* the latest store query of each caller of dispatchQuery
    lastSuccessfulQuery, \* Dispatcher.lastSuccessfulQuery (new), in ms
    checkStart,       \* checkSubscription's local Date `start` (old), in ms
    emitCache,        \* Dispatcher.emitCache: sequence of messages to send again
    reemitting,       \* Dispatcher.reemitting: the latch of emitFromCache
    reemitPc,         \* where the emitFromCache call that holds the latch is:
                      \* [at, i, l], at is "idle", "send" or "sleep"
    resent,           \* the sends of emitFromCache as they settled, in order
    returned,         \* what the promises of emit settled with, in order
    drains,           \* the calls of emitFromCache so far: [calls, refused],
                      \* how many were made and how many of them returned at
                      \* the latch
    idb,              \* the Store object: [open, db, readies, reject, interval,
                      \* sets], the state of its indexedDB.open request,
                      \* whether this.db is assigned, the promises ready()
                      \* returned, this.reject and this.interval (old), and
                      \* what the set calls so far settled with
    factory           \* the module variables of getDispatcher and its calls:
                      \* [module, dispatcher, initializing, pc, destroyPc,
                      \* built, returns]

vars == <<version, mapping, decryptionKeys, autoEncrypt, autoEncryptKeyId,
          msgHashes, running, startPc, stopPc, subscription, transportSubs,
          hearbeatInterval, filterConnected, db, network, app, calls, log,
          escaped, epoch, resubscribing, resubscribeAttempts, checkPc, subOps,
          checks, disconnects, clock, localPc, queries, lastSuccessfulQuery, checkStart,
          emitCache, reemitting, reemitPc, resent, returned, drains, idb, factory>>

\* what no method of the Dispatcher assigns
envVars  == <<version, idb, factory>>
keyVars  == <<decryptionKeys, autoEncrypt, autoEncryptKeyId>>
lifeVars == <<running, startPc, stopPc, subscription, transportSubs,
              hearbeatInterval, filterConnected>>
histVars == <<calls, log, escaped>>
resubVars == <<resubscribing, resubscribeAttempts, checkPc, subOps, checks, disconnects>>
queryVars == <<clock, localPc, queries, lastSuccessfulQuery, checkStart>>
emitVars  == <<emitCache, reemitting, reemitPc, resent, returned, drains>>

\* new Date() when the Dispatcher is constructed
StartOfTime == 100000000

\* the callers of dispatchQuery: dispatchLocalQuery, dispatchRegularQuery (new)
\* and checkSubscription (old)
QueryOrigins == {"startup", "regular", "resubscribe"}

\* no call of the store's queryGenerator yet
NoQuery == [filtered |-> FALSE, timeStart |-> 0, timeEnd |-> 0, live |-> FALSE,
            at |-> 0, state |-> "none", settled |-> 0]

\* no dispatchLocalQuery call in flight
LocalIdle == [at |-> "idle", messages |-> <<>>, i |-> 0, start |-> 0, waiting |-> 0]

\* no emitFromCache call in flight
ReemitIdle == [at |-> "idle", i |-> 0, l |-> 0]

NoMapping == [t \in MessageTypes |-> <<>>]

\* this.subscription = undefined (old), null (new)
NoSubscription == [obj |-> FALSE, topics |-> {}]

\* new Store(name): indexedDB.open is pending, this.db is undefined
NewStore == [open |-> "pending", db |-> FALSE, readies |-> <<>>, reject |-> 0,
             interval |-> 0, sets |-> <<>>]

\* the store a Dispatcher is given once its database is open
OpenedStore == [NewStore EXCEPT !.open = "success", !.db = TRUE]

\* let dispatcher: Dispatcher | null = null; let initializing = false
\* (0 is null; an instance is known by its number)
NoFactory(module) ==
    [module |-> module, dispatcher |-> 0, initializing |-> FALSE, pc |-> "idle",
     autostart |-> TRUE, destroyPc |-> "idle", gets |-> 0, destroys |-> 0,
     made |-> 0, built |-> 0,
     returns |-> <<>>]

\* a Dispatcher constructed by the application itself over an open store
InitModule == idb = OpenedStore /\ factory = NoFactory("dispatcher.ts")

\* the constructor (both snapshots)
InitDispatcher ==
    /\ mapping = NoMapping
    /\ decryptionKeys = <<>>
    /\ autoEncrypt = FALSE
    /\ autoEncryptKeyId = -1
    /\ msgHashes = <<>>
    /\ running = FALSE
    /\ startPc = [at |-> "idle", decoders |-> {}]
    /\ stopPc = "idle"
    /\ subscription = NoSubscription
    /\ transportSubs = {}
    /\ hearbeatInterval = "none"
    /\ filterConnected = FALSE
    /\ calls = <<>>
    /\ log = <<>>
    /\ escaped = {}
    /\ epoch = 0
    /\ resubscribing = FALSE
    /\ resubscribeAttempts = 0
    /\ checkPc = [at |-> "idle", had |-> FALSE]
    /\ subOps = <<>>
    /\ checks = 0
    /\ disconnects = 0
    /\ clock = StartOfTime
    /\ localPc = LocalIdle
    /\ queries = [o \in QueryOrigins |-> NoQuery]
    /\ lastSuccessfulQuery = StartOfTime
    /\ checkStart = 0
    /\ emitCache = <<>>
    /\ reemitting = FALSE
    /\ reemitPc = ReemitIdle
    /\ resent = <<>>
    /\ returned = <<>>
    /\ drains = [calls |-> 0, refused |-> 0]

(***************************************************************************)
(* Dispatcher.on                                                           *)
(***************************************************************************)
DispachInfo(cb, verify, onlyEnc, ct, storeLocally) ==
    [callback |-> cb, verifySender |-> verify, acceptOnlyEncrypted |-> onlyEnc,
     contentTopic |-> ct, storeLocally |-> storeLocally]

\* the DispachInfo on() builds; the old snapshot has neither contentTopic nor
\* storeLocally (kept here as "" and TRUE, and never read by the old dispatch)
newDispatchInfo(cb, verifySenderArg, acceptOnlyEcrypted, contentTopic, storeLocally) ==
    IF version = "new"
    THEN DispachInfo(cb, Truthy(verifySenderArg), Truthy(acceptOnlyEcrypted),
                     IF contentTopic # "" THEN contentTopic ELSE DefaultTopic,
                     IF storeLocally = "undefined" THEN TRUE ELSE Truthy(storeLocally))
    ELSE DispachInfo(cb, Truthy(verifySenderArg), Truthy(acceptOnlyEcrypted), "", TRUE)

\* a find that never matches
NeverRegistered(infos, cb) == FALSE

\* dispatchInfos.find((di) => di.callback.toString() == callback.toString())
AlreadyRegistered(infos, cb) ==
    \E k \in 1..Len(infos) : CallbackSource(infos[k].callback) = CallbackSource(cb)

on(typ, cb, verifySenderArg, acceptOnlyEcrypted, contentTopic, storeLocally) ==
    /\ mapping' =
         IF AlreadyRegistered(mapping[typ], cb) THEN mapping
         ELSE [mapping EXCEPT ![typ] =
                 Append(@, newDispatchInfo(cb, verifySenderArg, acceptOnlyEcrypted,
                                           contentTopic, storeLocally))]
    /\ UNCHANGED <<envVars, queryVars, emitVars, resubVars, keyVars, msgHashes, lifeVars, db, network, histVars, epoch>>

(***************************************************************************)
(* Dispatcher.registerKey                                                  *)
(***************************************************************************)
KeyRegistered(keys, key, type) ==
    \E k \in 1..Len(keys) : keys[k].key = key /\ keys[k].type = type

registerKey(key, type, autoEncryptArg) ==
    /\ IF KeyRegistered(decryptionKeys, key, type)
       THEN UNCHANGED keyVars
       ELSE /\ decryptionKeys' = Append(decryptionKeys, [key |-> key, type |-> type])
            /\ IF version = "new" /\ autoEncryptArg
               THEN /\ autoEncrypt' = TRUE
                    /\ autoEncryptKeyId' = Len(decryptionKeys')  - 1
               ELSE UNCHANGED <<autoEncrypt, autoEncryptKeyId>>
    /\ UNCHANGED <<envVars, queryVars, emitVars, resubVars, mapping, msgHashes, lifeVars, db, network, histVars, epoch>>

(***************************************************************************)
(* Dispatcher.checkDuplicate                                               *)
(***************************************************************************)
HashStringLength == 66       \* keccak256 returns "0x" and 64 hex digits
CacheThresholdNew == 2000
CacheThresholdOld == 100
SliceBackNew == 500
SliceBackOld == 100

CacheThreshold == IF version = "new" THEN CacheThresholdNew ELSE CacheThresholdOld
SliceBack      == IF version = "new" THEN SliceBackNew ELSE SliceBackOld

\* Array.prototype.slice(start, end): a new array, the receiver is not changed
slice(arr, start, end) ==
    LET len == Len(arr)
        from == IF start < 0 THEN (IF len + start > 0 THEN len + start ELSE 0)
                ELSE (IF start < len THEN start ELSE len)
        to   == IF end < 0 THEN (IF len + end > 0 THEN len + end ELSE 0)
                ELSE (IF end < len THEN end ELSE len)
    IN SubSeq(arr, from + 1, to)

\* a cache that never recognises a hash
NeverDuplicate(hashes, hash) == FALSE

\* this.msgHashes.indexOf(hash) >= 0
IsDuplicate(hashes, hash) == \E k \in 1..Len(hashes) : hashes[k] = hash

\* a cache that records nothing
ForgetHash(hashes, hash) == hashes

\* msgHashes after checkDuplicate(hash).  Past the threshold the source
\* evaluates this.msgHashes.slice(hash.length - N, hash.length) and drops the
\* result: msgHashes itself is only ever pushed to.
checkDuplicate(hashes, hash) ==
    IF IsDuplicate(hashes, hash) THEN hashes
    ELSE LET sliced == IF Len(hashes) > CacheThreshold
                       THEN slice(hashes, HashStringLength - SliceBack, HashStringLength)
                       ELSE hashes
             kept   == hashes          \* `sliced` is not assigned back
         IN Append(kept, hash)

(***************************************************************************)
(* Store.set.  `fault` is what the environment does to this call:          *)
(*   "none"      IndexedDB works                                           *)
(*   "notReady"  the database is not open (still opening, or failed)       *)
(*   "addError"  the add request fails with an error other than a          *)
(*               duplicate key                                             *)
(* The result: the object store afterwards, whether set threw              *)
(* synchronously, whether the promise it returned rejects.                 *)
(***************************************************************************)
StoreFaults == {"none", "notReady", "addError"}

\* what objectStore.add can meet in a Store of its own: besides the faults
\* above, "otherMessage" is an engine whose ConstraintError for an existing
\* key does not carry the words "Key already exists" (the text of a
\* DOMException is left to the engine)
AddFaults == {"none", "addError", "otherMessage"}
In  == "In"
Out == "Out"

StoreMsg(direction, msg, hash) == [direction |-> direction, dmsg |-> msg, hash |-> hash]

KeyExists(dbv, hash) == \E r \in dbv : r.hash = hash

\* objectStore.add(msg): keyPath "hash"; an existing key is an error
objectStoreAdd(dbv, smsg) == IF KeyExists(dbv, smsg.hash) THEN dbv ELSE dbv \cup {smsg}

\* error.message.includes("Key already exists")
KeyAlreadyExists(dbv, smsg, fault) == KeyExists(dbv, smsg.hash) /\ fault = "none"

\* whether request.onerror fires
addFails(dbv, smsg, fault) ==
    \/ fault = "addError"
    \/ KeyExists(dbv, smsg.hash)

set(dbv, smsg, fault) ==
    IF version = "new"
    THEN \* async: await this.ready(); add; onerror rejects unless "Key already exists"
         IF fault = "notReady"
         THEN [db |-> dbv, threw |-> FALSE, rejected |-> TRUE]
         ELSE IF addFails(dbv, smsg, fault)
         THEN [db |-> dbv, threw |-> FALSE,
               rejected |-> ~KeyAlreadyExists(dbv, smsg, fault)]
         ELSE [db |-> objectStoreAdd(dbv, smsg), threw |-> FALSE, rejected |-> FALSE]
    ELSE \* sync: this.db!.transaction(..) throws on an undefined db; onerror logs
         IF fault \in {"notReady", "addError"}
         THEN [db |-> dbv, threw |-> (fault = "notReady"), rejected |-> FALSE]
         ELSE [db |-> objectStoreAdd(dbv, smsg), threw |-> FALSE, rejected |-> FALSE]

(***************************************************************************)
(* Dispatcher.dispatch: the loop over the registrations of the type.       *)
(* c is the call's context [call, msg, fromStorage, hash, dmsg, encrypted, *)
(* fault]; acc is [events, db, rejected, aborted].  An exception (thrown   *)
(* by verifyMessage, by a synchronous store.set or by a callback) ends the *)
(* loop: it is caught by dispatch's try/catch.                             *)
(***************************************************************************)
Event(ev, c, di, result) ==
    [ev |-> ev, call |-> c.call, cb |-> di.callback, reg |-> di, msg |-> c.msg,
     dmsg |-> c.dmsg, hash |-> c.hash, result |-> result,
     direction |-> In, payload |-> c.dmsg.payload, signer |-> c.dmsg.signer,
     meta |-> [encrypted |-> c.encrypted, fromStore |-> c.fromStorage,
               timestamp |-> c.dmsg.timestamp, ephemeral |-> c.msg.ephemeral,
               contentTopic |-> c.msg.contentTopic]]

\* a dispatch that saves whatever it delivers / that saves nothing
AlwaysStore(msg, fromStorage, di) == TRUE
NeverStore(msg, fromStorage, di) == FALSE

\* new: if (!msg.ephemeral && !fromStorage && dispatchInfo.storeLocally)
\* old: if (!msg.ephemeral && !fromStorage)
shouldStore(msg, fromStorage, di) ==
    /\ ~msg.ephemeral
    /\ ~fromStorage
    /\ (version = "new" => di.storeLocally)

\* what became of a store.set call
SetResult(st) == IF st.threw THEN "threw" ELSE IF st.rejected THEN "rejected" ELSE "ok"

RECURSIVE dispatchLoop(_, _, _, _)
dispatchLoop(infos, k, c, acc) ==
    IF k > Len(infos) THEN acc
    ELSE
      LET di == infos[k]
          aborted == [acc EXCEPT !.aborted = TRUE]
      IN IF di.acceptOnlyEncrypted /\ ~c.encrypted
           THEN dispatchLoop(infos, k + 1, c, acc)
         ELSE IF version = "new" /\ di.contentTopic # c.msg.contentTopic
           THEN dispatchLoop(infos, k + 1, c, acc)
         ELSE IF di.verifySender /\ verifySenderThrows(c.dmsg)
           THEN aborted
         ELSE IF di.verifySender /\ ~verifySender(c.dmsg)
           THEN dispatchLoop(infos, k + 1, c, acc)
         ELSE
           LET doStore == shouldStore(c.msg, c.fromStorage, di)
               st == IF doStore
                     THEN set(acc.db, StoreMsg(In, c.msg, c.hash), c.fault)
                     ELSE [db |-> acc.db, threw |-> FALSE, rejected |-> FALSE]
               acc1 == [events   |-> IF doStore
                                     THEN Append(acc.events,
                                                 Event("put", c, di, SetResult(st)))
                                     ELSE acc.events,
                        db       |-> st.db,
                        rejected |-> acc.rejected \/ st.rejected,
                        aborted  |-> st.threw]
               cbResult == IF CallbackThrows(di.callback) THEN "threw" ELSE "ok"
               acc2 == [acc1 EXCEPT !.events = Append(@, Event("callback", c, di, cbResult)),
                                    !.aborted = CallbackThrows(di.callback)]
           IN IF st.threw THEN acc1
              ELSE IF CallbackThrows(di.callback) THEN acc2
              ELSE dispatchLoop(infos, k + 1, c, acc2)

\* mapping.get(type), <<>> when !mapping.has(type)
mappingGet(typ) == IF typ \in DOMAIN mapping THEN mapping[typ] ELSE <<>>

\* if (!dmsg.timestamp) dmsg.timestamp = <the transport timestamp>
\* (new: new Date(msg.timestamp).getTime(); old: msg.timestamp.toString())
withTimestamp(dmsg, msg) ==
    IF dmsg.timestamp # 0 THEN dmsg
    ELSE [dmsg EXCEPT !.timestamp = IF version = "new" THEN msg.timestamp
                                    ELSE DateToString(msg.timestamp)]

\* The part of dispatch inside try { } catch: decrypt, parse, look up, loop.
\* The result: [outcome, events, db, rejected].
dispatchTry(i, msg, fromStorage, fault) ==
    LET dm == decryptMessage(decryptionKeys, msg.payload)
        none(outcome) == [outcome |-> outcome, events |-> <<>>, db |-> db,
                          rejected |-> FALSE]
    IN IF dm.threw THEN none("parse error")
       ELSE
         LET dmsg  == withTimestamp(dm.dmsg, msg)
             infos == mappingGet(dmsg.type)
             c == [call |-> i, msg |-> msg, fromStorage |-> fromStorage,
                   hash |-> HashOf(msg), dmsg |-> dmsg, encrypted |-> dm.encrypted,
                   fault |-> fault]
             r == dispatchLoop(infos, 1, c,
                               [events |-> <<>>, db |-> db, rejected |-> FALSE,
                                aborted |-> FALSE])
         IN IF infos = <<>> THEN none("unknown type")
            ELSE [outcome |-> IF r.aborted THEN "aborted" ELSE "routed",
                  events |-> r.events, db |-> r.db, rejected |-> r.rejected]

(***************************************************************************)
(* Dispatcher.dispatch as two steps: the code up to the first await, and   *)
(* the continuation.                                                       *)
(*   new: hash, checkDuplicate | await decryptMessage; parse; loop         *)
(*   old: (nothing) | await decrypt; hash, checkDuplicate; parse; loop     *)
(* A call record: [msg, fromStorage, origin, pc, session, outcome]; pc is  *)
(* "await", "done" or "rejected" (the promise dispatch returned rejected); *)
(* session is the epoch in which checkDuplicate admitted or refused the    *)
(* hash (-1 before that).                                                  *)
(***************************************************************************)
Call(msg, fromStorage, origin, pc, session, outcome) ==
    [msg |-> msg, fromStorage |-> fromStorage, origin |-> origin, pc |-> pc,
     session |-> session, outcome |-> outcome]

Escape(i, what) == [call |-> i, what |-> what]

dispatch(msg, fromStorage, origin) ==
    LET i == Len(calls) + 1
        rec(pc, session, outcome) == Call(msg, fromStorage, origin, pc, session, outcome)
    IN /\ IF version = "old"
          THEN /\ calls' = Append(calls, rec("await", -1, ""))
               /\ UNCHANGED <<msgHashes, escaped>>
          ELSE IF HashThrows(msg)
          THEN /\ calls' = Append(calls, rec("rejected", -1, "threw"))
               /\ escaped' = escaped \cup {Escape(i, "dispatch rejected")}
               /\ UNCHANGED msgHashes
          ELSE IF IsDuplicate(msgHashes, HashOf(msg))
          THEN /\ calls' = Append(calls, rec("done", epoch, "duplicate"))
               /\ UNCHANGED <<msgHashes, escaped>>
          ELSE /\ calls' = Append(calls, rec("await", epoch, ""))
               /\ msgHashes' = checkDuplicate(msgHashes, HashOf(msg))
               /\ UNCHANGED escaped
       /\ UNCHANGED <<envVars, clock, queries, lastSuccessfulQuery, checkStart, emitVars,
                      resubVars, mapping, keyVars, lifeVars, db, network, app, log, epoch>>

\* a try without its catch: what was raised in the loop leaves dispatch
uncaught(outcome) == outcome = "aborted"

\* catch (e) { console.debug(e) }: nothing raised inside the try leaves it
rethrown(outcome) == FALSE

dispatchContinue(i, fault) ==
    LET c == calls[i]
        finish(pc, session, outcome) ==
            calls' = [calls EXCEPT ![i].pc = pc, ![i].session = session,
                                   ![i].outcome = outcome]
        try == dispatchTry(i, c.msg, c.fromStorage, fault)
        run(session) ==
            /\ finish(IF rethrown(try.outcome) THEN "rejected" ELSE "done", session,
                      try.outcome)
            /\ log' = log \o try.events
            /\ db' = try.db
            /\ escaped' = escaped
                    \cup (IF try.rejected THEN {Escape(i, "unhandled rejection")} ELSE {})
                    \cup (IF rethrown(try.outcome) THEN {Escape(i, "dispatch rejected")}
                          ELSE {})
    IN /\ c.pc = "await"
       /\ IF version = "new"
          THEN run(c.session) /\ UNCHANGED msgHashes
          ELSE IF HashThrows(c.msg)
          THEN /\ finish("rejected", -1, "threw")
               /\ escaped' = escaped \cup {Escape(i, "dispatch rejected")}
               /\ UNCHANGED <<msgHashes, log, db>>
          ELSE IF IsDuplicate(msgHashes, HashOf(c.msg))
          THEN /\ finish("done", epoch, "duplicate")
               /\ UNCHANGED <<msgHashes, log, db, escaped>>
          ELSE /\ msgHashes' = checkDuplicate(msgHashes, HashOf(c.msg))
               /\ run(epoch)
       /\ UNCHANGED <<envVars, queryVars, emitVars, resubVars, mapping, keyVars, lifeVars, network, app, epoch>>

(***************************************************************************)
(* The callers of dispatch.                                                *)
(***************************************************************************)
\* a query that hands its own `live` argument on as the replay flag
sameFlag(live) == live

\* A call of node.store.queryGenerator: the time filter of its options (none
\* when `filtered` is false), the `live` argument of the dispatchQuery that
\* made it, the time of the call, how it settled ("open" until then) and
\* when.  queries holds the latest call of each caller.
Query(filtered, timeStart, timeEnd, live) ==
    [filtered |-> filtered, timeStart |-> timeStart, timeEnd |-> timeEnd,
     live |-> live, at |-> clock, state |-> "open", settled |-> 0]

issue(origin, q) == [queries EXCEPT ![origin] = q]

settle(origin, ok) ==
    [queries EXCEPT ![origin].state = IF ok THEN "ok" ELSE "failed",
                    ![origin].settled = clock]

\* Date.prototype.setSeconds(getSeconds() + delta) on a Date of `ms`: the new time value
setSeconds(ms, delta) == ms + delta * MsPerSecond

ResubscribeOverlapSeconds == 120

\* the second argument of this.dispatch(msg, !live)
replayFlag(live) == ~live

\* dispatchQuery(options, live): every message of every page goes to
\* this.dispatch(msg, !live); the query is made with [this.decoder]
dispatchQuery(msg, live, origin) ==
    /\ msg \in network.archive
    /\ msg.contentTopic = DefaultTopic
    /\ dispatch(msg, replayFlag(live), origin)
    /\ UNCHANGED localPc

\* the filter subscription's callback: this.dispatch(msg)
onSubscriptionMessage(msg) ==
    /\ msg \in network.relay
    /\ msg.contentTopic \in transportSubs
    /\ dispatch(msg, FALSE, "live")
    /\ UNCHANGED localPc

\* dispatchLocalQuery, one turn of the loop over the stored messages:
\* await this.dispatch(msg.dmsg, true).  The old snapshot skips messages of
\* another content topic than the decoder's.
dispatchLocalQueryReplay(smsg) ==
    /\ smsg \in db
    /\ version = "old" => smsg.dmsg.contentTopic = DefaultTopic
    /\ dispatch(smsg.dmsg, TRUE, "local")
    /\ UNCHANGED localPc

\* dispatchLocalQuery, a message of the network query that follows the replay:
\* new: dispatchQuery({..}, true) in both branches
\* old: dispatchQuery({..}, true) when local history existed, else dispatchQuery()
\* (start.getTime() > 0: a replayed message carried a timestamp)
HadLocalHistory ==
    \E r \in db : /\ r.dmsg.timestamp > 0
                  /\ version = "old" => r.dmsg.contentTopic = DefaultTopic

dispatchLocalQueryNetwork(msg) ==
    dispatchQuery(msg, version = "new" \/ HadLocalHistory, "startup")

\* dispatchRegularQuery (new; the 10 s timer start() installs): dispatchQuery({..})
dispatchRegularQuery(msg) ==
    /\ version = "new"
    /\ hearbeatInterval = "set"
    /\ dispatchQuery(msg, FALSE, "regular")

\* checkSubscription (old), after a successful resubscribe:
\* dispatchQuery({timeFilter: ..}, true)
checkSubscriptionQuery(msg) ==
    /\ version = "old"
    /\ subscription.obj
    /\ dispatchQuery(msg, TRUE, "resubscribe")

(***************************************************************************)
(* Dispatcher.getLocalMessages and Dispatcher.dispatchLocalQuery, await by *)
(* await.  The old dispatchLocalQuery sorts in its own body, with the same *)
(* comparator.  A stored message without transport timestamp has           *)
(* timestamp 0 here.                                                       *)
(***************************************************************************)
\* the comparator handed to Array.prototype.sort
compareFn(a, b) ==
    IF a.dmsg.timestamp = 0 THEN 1
    ELSE IF b.dmsg.timestamp = 0 THEN -1
    ELSE IF a.dmsg.timestamp < b.dmsg.timestamp THEN -1
    ELSE 1

\* Array.prototype.sort as the engine runs it on a short array: binary
\* insertion, which looks only at whether the comparator's result is negative
RECURSIVE searchSlot(_, _, _, _)
searchSlot(sorted, pivot, left, right) ==
    IF left >= right THEN left
    ELSE LET mid == left + ((right - left) \div 2)
         IN IF compareFn(pivot, sorted[mid + 1]) < 0
            THEN searchSlot(sorted, pivot, left, mid)
            ELSE searchSlot(sorted, pivot, mid + 1, right)

insertAt(sorted, k, pivot) ==
    SubSeq(sorted, 1, k) \o <<pivot>> \o SubSeq(sorted, k + 1, Len(sorted))

RECURSIVE sortFrom(_, _)
sortFrom(arr, k) ==
    IF k > Len(arr) THEN arr
    ELSE LET sorted == SubSeq(arr, 1, k - 1)
             slot   == searchSlot(sorted, arr[k], 0, k - 1)
         IN sortFrom(insertAt(sorted, slot, arr[k]) \o SubSeq(arr, k + 1, Len(arr)), k + 1)

\* store.getAll(): the records in the order of their keys, the hashes, which
\* is any order as far as the messages go
getAll(dbv) ==
    {arr \in [1..Cardinality(dbv) -> dbv] : \A i, j \in DOMAIN arr : i # j => arr[i] # arr[j]}

\* messages.sort((a, b) => ..)
getLocalMessages(arr) == sortFrom(arr, 2)

\* dispatchLocalQuery, up to the loop: let start = new Date(0);
\* let messages = await this.getLocalMessages()
dispatchLocalQuery ==
    /\ localPc.at \in {"idle", "done", "rejected"}
    /\ \E arr \in getAll(db) :
          localPc' = [at |-> "replay", messages |-> getLocalMessages(arr), i |-> 1,
                      start |-> 0, waiting |-> 0]
    /\ UNCHANGED <<envVars, clock, queries, lastSuccessfulQuery, checkStart, emitVars,
                   resubVars, mapping, keyVars, msgHashes, lifeVars, db, network,
                   histVars, epoch>>

\* the old loop: if (msg.dmsg.contentTopic != this.decoder.contentTopic) continue
skipped(smsg) == version = "old" /\ smsg.dmsg.contentTopic # DefaultTopic

\* one turn of the loop, up to its await: await this.dispatch(msg.dmsg, true)
dispatchLocalQueryLoop ==
    /\ localPc.at = "replay"
    /\ localPc.i <= Len(localPc.messages)
    /\ LET msg == localPc.messages[localPc.i]
       IN IF skipped(msg)
          THEN /\ localPc' = [localPc EXCEPT !.i = @ + 1]
               /\ UNCHANGED <<envVars, clock, queries, lastSuccessfulQuery, checkStart,
                              emitVars, resubVars, mapping, keyVars, msgHashes, lifeVars,
                              db, network, app, histVars, epoch>>
          ELSE /\ dispatch(msg.dmsg, TRUE, "local")
               /\ localPc' = [localPc EXCEPT !.at = "await", !.waiting = Len(calls) + 1]

\* the awaited dispatch settled.  Resolved: if (msg.dmsg.timestamp &&
\* msg.dmsg.timestamp > start) start = msg.dmsg.timestamp, and the next turn.
\* Rejected: the await throws and dispatchLocalQuery rejects.
dispatchLocalQueryResumed ==
    /\ localPc.at = "await"
    /\ calls[localPc.waiting].pc \in {"done", "rejected"}
    /\ LET msg == localPc.messages[localPc.i]
       IN localPc' =
            IF calls[localPc.waiting].pc = "rejected"
            THEN [localPc EXCEPT !.at = "rejected", !.waiting = 0]
            ELSE [localPc EXCEPT
                     !.at = "replay", !.waiting = 0, !.i = @ + 1,
                     !.start = IF msg.dmsg.timestamp # 0 /\ msg.dmsg.timestamp > @
                               THEN msg.dmsg.timestamp ELSE @]
    /\ UNCHANGED <<envVars, clock, queries, lastSuccessfulQuery, checkStart, emitVars,
                   resubVars, mapping, keyVars, msgHashes, lifeVars, db, network, app,
                   histVars, epoch>>

\* Date.prototype.setTime(getTime() + delta): the new time value
setTime(ms, delta) == ms + delta

\* the time filter of the query that follows the replay, and its `live`
\*   start.getTime() > 0: [start - 360*1000, now + 3600*1000], true
\*   else, new: [now - 8*3600*1000, now + 3600*1000], true
\*   else, old: dispatchQuery(), which has no time filter and live = false
noMargin(ms) == ms
backBy360s(ms) == setTime(ms, -(360 * 1000))

localQueryWindow(start) ==
    IF start > 0
    THEN Query(TRUE, backBy360s(start), setTime(clock, 3600 * 1000), TRUE)
    ELSE IF version = "new"
    THEN Query(TRUE, setTime(clock, -(8 * 3600 * 1000)), setTime(clock, 3600 * 1000), TRUE)
    ELSE Query(FALSE, 0, 0, FALSE)

\* after the loop: the query is issued (the old snapshot first sleeps until
\* filterConnected when local history had a timestamp)
dispatchLocalQueryWindow ==
    /\ localPc.at = "replay"
    /\ localPc.i > Len(localPc.messages)
    /\ (version = "old" /\ localPc.start > 0) => filterConnected
    /\ queries' = issue("startup", localQueryWindow(localPc.start))
    /\ localPc' = [localPc EXCEPT !.at = "query"]
    /\ UNCHANGED <<envVars, clock, lastSuccessfulQuery, checkStart, emitVars, resubVars,
                   mapping, keyVars, msgHashes, lifeVars, db, network, app, histVars,
                   epoch>>

\* a message of that query, during the await
dispatchLocalQueryDispatch(msg) ==
    /\ localPc.at = "query"
    /\ dispatchQuery(msg, queries["startup"].live, "startup")

\* the query settles; the new snapshot catches and logs its error, the old
\* one rejects
dispatchLocalQuerySettled(ok) ==
    /\ localPc.at = "query"
    /\ queries' = settle("startup", ok)
    /\ localPc' = [localPc EXCEPT !.at = IF ok \/ version = "new" THEN "done"
                                         ELSE "rejected"]
    /\ UNCHANGED <<envVars, clock, lastSuccessfulQuery, checkStart, emitVars, resubVars,
                   mapping, keyVars, msgHashes, lifeVars, db, network, app, histVars,
                   epoch>>

\* dispatchRegularQuery (new), up to its await.  `start` is the Date object
\* of this.lastSuccessfulQuery itself, so setTime moves the field back; the
\* timer fires once in a tick of the clock.
dispatchRegularQueryIssued ==
    /\ version = "new"
    /\ hearbeatInterval = "set"
    /\ queries["regular"].state = "none" \/ queries["regular"].at < clock
    /\ lastSuccessfulQuery' = setTime(lastSuccessfulQuery, -(300 * 1000))
    /\ queries' = issue("regular", Query(TRUE, lastSuccessfulQuery', clock, FALSE))
    /\ UNCHANGED <<envVars, clock, localPc, checkStart, emitVars, resubVars, mapping,
                   keyVars, msgHashes, lifeVars, db, network, app, histVars, epoch>>

\* a message of that query, during the await
dispatchRegularQueryDispatch(msg) ==
    /\ queries["regular"].state = "open"
    /\ dispatchRegularQuery(msg)

\* the query settles: this.lastSuccessfulQuery = new Date(), or the catch
dispatchRegularQuerySettled(ok) ==
    /\ queries["regular"].state = "open"
    /\ queries' = settle("regular", ok)
    /\ lastSuccessfulQuery' = IF ok THEN clock ELSE lastSuccessfulQuery
    /\ UNCHANGED <<envVars, clock, localPc, checkStart, emitVars, resubVars, mapping,
                   keyVars, msgHashes, lifeVars, db, network, app, histVars, epoch>>

\* time passes
MaxTicks == 2           \* ticks of the clock in one behaviour
TickMs == 200 * MsPerSecond

Tick ==
    /\ clock < StartOfTime + MaxTicks * TickMs
    /\ clock' = clock + TickMs
    /\ UNCHANGED <<envVars, localPc, queries, lastSuccessfulQuery, checkStart, emitVars,
                   resubVars, mapping, keyVars, msgHashes, lifeVars, db, network, app,
                   histVars, epoch>>

(***************************************************************************)
(* Dispatcher.start, Dispatcher.stop, Dispatcher.clearDuplicateCache.      *)
(* start and the old stop await the transport; each await is a step.       *)
(***************************************************************************)
Idle == [at |-> "idle", decoders |-> {}]

\* if (this.running) return; this.running = true; await waitForRemotePeer(..)
start ==
    /\ startPc.at = "idle"
    /\ ~running
    /\ running' = TRUE
    /\ startPc' = [at |-> "waitPeer", decoders |-> {}]
    /\ UNCHANGED <<envVars, queryVars, emitVars, resubVars, mapping, keyVars, msgHashes, stopPc, subscription,
                   transportSubs, hearbeatInterval, filterConnected, db, network,
                   histVars, epoch>>

\* start() on a dispatcher whose running flag is set: if (this.running) return
startReturns ==
    /\ running
    /\ UNCHANGED <<envVars, queryVars, emitVars, resubVars, mapping, keyVars, msgHashes,
                   lifeVars, db, network, histVars, epoch>>

\* the decoder of the default topic and one per registration of another topic
Decoders ==
    {DefaultTopic} \cup
    UNION {{mapping[t][k].contentTopic : k \in 1..Len(mapping[t])} : t \in MessageTypes}

\* waitForRemotePeer settles.  Rejected: start rejects (running stays true).
\* new: the timer is installed, then filter.subscribe(decoders, ..) is awaited
\* old: createSubscription and subscribe(this.decoder, ..) are awaited
startPeerSettled(ok) ==
    /\ startPc.at = "waitPeer"
    /\ IF ~ok
       THEN startPc' = Idle /\ UNCHANGED hearbeatInterval
       ELSE /\ startPc' = [at |-> "subscribe",
                           decoders |-> IF version = "new" THEN Decoders
                                        ELSE {DefaultTopic}]
            /\ hearbeatInterval' = IF version = "new" THEN "set" ELSE hearbeatInterval
    /\ UNCHANGED <<envVars, queryVars, emitVars, resubVars, mapping, keyVars, msgHashes, running, stopPc,
                   subscription, transportSubs, filterConnected, db, network,
                   app, histVars, epoch>>

\* the subscribe call settles.  A failure is caught and logged by the new
\* start and rejects the old one (before it installs its timer).
startSubscribeSettled(ok) ==
    /\ startPc.at = "subscribe"
    /\ startPc' = Idle
    /\ IF ok
       THEN /\ subscription' = [obj |-> TRUE, topics |-> startPc.decoders]
            /\ transportSubs' = transportSubs \cup startPc.decoders
            /\ filterConnected' = TRUE
            /\ hearbeatInterval' = IF version = "old" THEN "set" ELSE hearbeatInterval
       ELSE UNCHANGED <<subscription, transportSubs, filterConnected, hearbeatInterval>>
    /\ UNCHANGED <<envVars, queryVars, emitVars, resubVars, mapping, keyVars, msgHashes, running, stopPc, db,
                   network, app, histVars, epoch>>

clearInterval(timer) == IF timer = "set" THEN "cleared" ELSE timer

\* a stop that forgets to empty msgHashes and mapping
stopKeepsState ==
    /\ stopPc = "idle"
    /\ running' = FALSE
    /\ hearbeatInterval' = clearInterval(hearbeatInterval)
    /\ IF version = "old" /\ subscription.obj
       THEN stopPc' = "unsubscribe" /\ UNCHANGED <<subscription, epoch>>
       ELSE subscription' = NoSubscription /\ epoch' = epoch + 1 /\ UNCHANGED stopPc
    /\ UNCHANGED <<envVars, queryVars, emitVars, resubVars, keyVars, startPc, transportSubs, filterConnected,
                   db, network, histVars, msgHashes, mapping>>

\* new: this.unsubscribe is never assigned, so nothing is awaited and the
\*      transport subscription is left in place
\* old: await this.subscription?.unsubscribeAll() comes before the clearing
stop ==
    /\ stopPc = "idle"
    /\ running' = FALSE
    /\ hearbeatInterval' = clearInterval(hearbeatInterval)
    /\ IF version = "old" /\ subscription.obj
       THEN /\ stopPc' = "unsubscribe"
            /\ UNCHANGED <<subscription, msgHashes, mapping, epoch>>
       ELSE /\ subscription' = NoSubscription
            /\ msgHashes' = <<>>
            /\ mapping' = NoMapping
            /\ epoch' = epoch + 1
            /\ UNCHANGED stopPc
    /\ UNCHANGED <<envVars, queryVars, emitVars, resubVars, keyVars, startPc, transportSubs, filterConnected, db,
                   network, histVars>>

\* old: unsubscribeAll settles; when it rejects so does stop, and nothing
\* after the await runs
stopUnsubscribeSettled(ok) ==
    /\ stopPc = "unsubscribe"
    /\ stopPc' = "idle"
    /\ IF ok
       THEN /\ transportSubs' = {}
            /\ subscription' = NoSubscription
            /\ msgHashes' = <<>>
            /\ mapping' = NoMapping
            /\ epoch' = epoch + 1
       ELSE UNCHANGED <<transportSubs, subscription, msgHashes, mapping, epoch>>
    /\ UNCHANGED <<envVars, queryVars, emitVars, resubVars, keyVars, running, startPc, hearbeatInterval,
                   filterConnected, db, network, app, histVars>>

(***************************************************************************)
(* Dispatcher.checkSubscription (old snapshot; the new one has none).  The *)
(* heartbeat timer and the peer:disconnect listener, both installed by     *)
(* start(), call it; the listener is never removed.  Every await is a      *)
(* step.                                                                   *)
(***************************************************************************)
MAX_RESUBSCRIBE_ATTEMPTS == 5
MaxFailures == 6         \* failed attempts in one behaviour
MaxChecks == 2           \* checkSubscription calls in one behaviour

CheckTriggers == {"heartbeat", "peer:disconnect"}

\* everything checkSubscription leaves alone at every step
restOfDispatcher == <<envVars, mapping, keyVars, msgHashes, running, startPc, stopPc,
                      hearbeatInterval, db, network, app, histVars, epoch, clock,
                      localPc, lastSuccessfulQuery, emitVars>>

OpsKept == 4             \* the length of the history subOps keeps
Op(op, ok) == [op |-> op, ok |-> ok, n |-> resubscribeAttempts, had |-> checkPc.had]
Keep(ops) == IF Len(ops) > OpsKept THEN SubSeq(ops, Len(ops) - OpsKept + 1, Len(ops))
             ELSE ops

\* an attempt that never goes through the teardown unless the field is empty
neverRecreate(attempts, sub) == ~sub.obj

\* if (this.resubscribeAttempts >= MAX_RESUBSCRIBE_ATTEMPTS || !this.subscription)
mustRecreate(attempts, sub) == attempts >= MAX_RESUBSCRIBE_ATTEMPTS \/ ~sub.obj

\* the top of while(true): the call the attempt awaits first
beginAttempt ==
    [at  |-> IF mustRecreate(resubscribeAttempts, subscription)
             THEN IF subscription.obj THEN "unsubscribeAll" ELSE "create"
             ELSE "subscribe",
     had |-> subscription.obj]

\* catch (e) { this.resubscribeAttempts++ }; await sleep(..)
attemptFailed ==
    /\ resubscribeAttempts < MaxFailures
    /\ resubscribeAttempts' = resubscribeAttempts + 1
    /\ checkPc' = [checkPc EXCEPT !.at = "sleep"]
    /\ UNCHANGED <<resubscribing, filterConnected, checkStart>>

\* finally { resubscribeAttempts = 0; resubscribing = false; filterConnected = true }
sequenceEnds ==
    /\ resubscribeAttempts' = 0
    /\ resubscribing' = FALSE
    /\ filterConnected' = TRUE
    /\ checkPc' = [at |-> "idle", had |-> FALSE]
    /\ checkStart' = 0

\* a guard that does not look at the latch
ignoreLatch(sub, latch) == sub.obj

\* if (this.subscription && !this.resubscribing)
takesLatch(sub, latch) == sub.obj /\ ~latch

\* .. { this.resubscribing = true; await this.subscription.ping() .. }
checkSubscription(trigger) ==
    /\ version = "old"
    /\ IF trigger = "heartbeat" THEN hearbeatInterval = "set"
       ELSE hearbeatInterval # "none"
    /\ checks < MaxChecks
    /\ checks' = checks + 1
    /\ disconnects' = IF trigger = "peer:disconnect" THEN disconnects + 1 ELSE disconnects
    /\ IF takesLatch(subscription, resubscribing)
       THEN /\ resubscribing' = TRUE
            /\ checkPc' = [at |-> "ping", had |-> TRUE]
       ELSE UNCHANGED <<resubscribing, checkPc>>
    /\ UNCHANGED <<resubscribeAttempts, subOps, subscription, transportSubs,
                   filterConnected>>
    /\ UNCHANGED <<restOfDispatcher, queries, checkStart>>

\* the peer:disconnect listener of the new snapshot: two console.debug calls
\* (its call of checkSubscription is commented out)
peerDisconnectLogged ==
    /\ version = "new"
    /\ hearbeatInterval # "none"
    /\ disconnects < MaxChecks
    /\ disconnects' = disconnects + 1
    /\ UNCHANGED <<resubscribing, resubscribeAttempts, checkPc, subOps, checks,
                   subscription, transportSubs, filterConnected, queries, checkStart>>
    /\ UNCHANGED restOfDispatcher

\* ping settles: resolved, the finally block ends the call; rejected, the
\* catch clears filterConnected and enters the loop
pingSettled(ok) ==
    /\ checkPc.at = "ping"
    /\ IF ok
       THEN /\ sequenceEnds
            /\ subOps' = Keep(subOps \o <<Op("ping", TRUE), Op("done", TRUE)>>)
       ELSE /\ filterConnected' = FALSE
            /\ checkStart' = clock
            /\ checkPc' = beginAttempt
            /\ subOps' = Keep(Append(subOps, Op("ping", FALSE)))
            /\ UNCHANGED <<resubscribing, resubscribeAttempts>>
    /\ UNCHANGED <<subscription, transportSubs, queries>>
    /\ UNCHANGED <<checks, disconnects, restOfDispatcher>>

\* unsubscribeAll settles; its error is logged, and in either case
\* this.subscription = undefined and createSubscription is awaited
unsubscribeAllSettled(ok) ==
    /\ checkPc.at = "unsubscribeAll"
    /\ subscription' = NoSubscription
    /\ transportSubs' = IF ok THEN {} ELSE transportSubs
    /\ checkPc' = [checkPc EXCEPT !.at = "create"]
    /\ subOps' = Keep(Append(subOps, Op("unsubscribeAll", ok)))
    /\ UNCHANGED <<resubscribing, resubscribeAttempts, filterConnected>>
    /\ UNCHANGED <<checks, disconnects, restOfDispatcher>>
    /\ UNCHANGED <<queries, checkStart>>

\* createSubscription settles; resolved, subscribe is called on the new object
createSubscriptionSettled(ok) ==
    /\ checkPc.at = "create"
    /\ subOps' = Keep(Append(subOps, Op("createSubscription", ok)))
    /\ IF ok
       THEN /\ subscription' = [obj |-> TRUE, topics |-> {}]
            /\ checkPc' = [checkPc EXCEPT !.at = "subscribe"]
            /\ UNCHANGED <<resubscribing, resubscribeAttempts, filterConnected>>
       ELSE /\ attemptFailed
            /\ UNCHANGED subscription
    /\ UNCHANGED transportSubs
    /\ UNCHANGED <<checks, disconnects, restOfDispatcher>>
    /\ UNCHANGED <<queries, checkStart>>

\* subscribe([this.decoder], this.dispatch) settles; resolved, dispatchQuery
\* is awaited
subscribeSettled(ok) ==
    /\ checkPc.at = "subscribe"
    /\ subOps' = Keep(Append(subOps, Op("subscribe", ok)))
    /\ IF ok
       THEN /\ subscription' = IF subscription.obj
                               THEN [subscription EXCEPT !.topics = @ \cup {DefaultTopic}]
                               ELSE subscription
            /\ transportSubs' = transportSubs \cup {DefaultTopic}
            /\ checkPc' = [checkPc EXCEPT !.at = "query"]
            /\ checkStart' = setSeconds(checkStart, -ResubscribeOverlapSeconds)
            /\ queries' = issue("resubscribe", Query(TRUE, checkStart', clock, TRUE))
            /\ UNCHANGED <<resubscribing, resubscribeAttempts, filterConnected>>
       ELSE /\ attemptFailed
            /\ UNCHANGED <<subscription, transportSubs, queries>>
    /\ UNCHANGED <<checks, disconnects, restOfDispatcher>>

\* a message of the query after the resubscription, during the await
checkSubscriptionDispatch(msg) ==
    /\ version = "old"
    /\ checkPc.at = "query"
    /\ dispatchQuery(msg, TRUE, "resubscribe")

\* dispatchQuery settles: resolved, break and the finally block; rejected
\* (the store query failed, or a dispatch rejected), the catch counts a failure
querySettled(ok) ==
    /\ checkPc.at = "query"
    /\ IF ok
       THEN /\ sequenceEnds
            /\ subOps' = Keep(subOps \o <<Op("query", TRUE), Op("done", TRUE)>>)
       ELSE /\ attemptFailed
            /\ subOps' = Keep(Append(subOps, Op("query", FALSE)))
    /\ queries' = settle("resubscribe", ok)
    /\ UNCHANGED <<subscription, transportSubs>>
    /\ UNCHANGED <<checks, disconnects, restOfDispatcher>>

\* the sleep is over: the next turn of the loop
resubscribeRetry ==
    /\ checkPc.at = "sleep"
    /\ checkPc' = beginAttempt
    /\ UNCHANGED <<resubscribing, resubscribeAttempts, subOps, subscription,
                   transportSubs, filterConnected>>
    /\ UNCHANGED <<checks, disconnects, restOfDispatcher>>
    /\ UNCHANGED <<queries, checkStart>>

clearDuplicateCache ==
    /\ msgHashes' = <<>>
    /\ epoch' = epoch + 1
    /\ UNCHANGED <<envVars, queryVars, emitVars, resubVars, mapping, keyVars, lifeVars, db, network, histVars>>

(***************************************************************************)
(* Dispatcher.emitTo, the envelope: lines 397-408 of the new snapshot.     *)
(* wallet "" is no wallet; now is (new Date()).getTime().                  *)
(***************************************************************************)
emitEnvelope(typ, payload, now, wallet) ==
    LET dmsg == Envelope(typ, payload, now, NoSig, wallet)
    IN IF wallet = "" THEN dmsg
       ELSE [dmsg EXCEPT !.signature = signMessageSync(wallet, stringifyUnsigned(dmsg))]

\* utf8ToBytes(JSON.stringify(dmsg, replacer))
PlainBytes(dmsg) == utf8ToBytes(stringifyEnvelope(dmsg))

(***************************************************************************)
(* Dispatcher.emit / emitTo, after the envelope.  The encryptionKey        *)
(* argument is [kind, key, type]: kind "undefined", "false", "raw" (a      *)
(* Uint8Array, taken to be a public key) or "Key" (a {key, type} object).  *)
(***************************************************************************)
KeyArg(kind, key, type) == [kind |-> kind, key |-> key, type |-> type]
NoKeyArg    == KeyArg("undefined", "", "")
FalseKeyArg == KeyArg("false", "", "")
RawKey(key) == KeyArg("raw", key, "")
KeyObj(key, type) == KeyArg("Key", key, type)

\* new: if ((encryptionKey === undefined || encryptionKey !== false)
\*          && this.autoEncrypt && this.autoEncryptKeyId !== undefined)
\*        encryptionKey = this.decryptionKeys[this.autoEncryptKeyId]
chooseEncryptionKey(arg) ==
    IF version = "new" /\ arg.kind # "false" /\ autoEncrypt /\ autoEncryptKeyId # -1
    THEN KeyObj(decryptionKeys[autoEncryptKeyId + 1].key,
                decryptionKeys[autoEncryptKeyId + 1].type)
    ELSE arg

\* if (encryptionKey) { .. encrypt(key, payloadArray) / encryptSymmetric(..) }
\* ecies encrypt throws on bytes that are no public key
encryptPayload(encryptionKey, bytes) ==
    IF encryptionKey.kind \in {"undefined", "false"}
    THEN [threw |-> FALSE, used |-> FALSE, bytes |-> bytes]
    ELSE LET keyType == IF encryptionKey.kind = "Key" THEN encryptionKey.type
                        ELSE Asymetric
         IN IF keyType = Asymetric /\ ~IsPublicKey(encryptionKey.key)
            THEN [threw |-> TRUE, used |-> TRUE, bytes |-> bytes]
            ELSE [threw |-> FALSE, used |-> TRUE,
                  bytes |-> encryptBytes(keyType, encryptionKey.key, bytes)]

\* what an emit published: the wire message and the arguments it was made from
Sent(msg, typ, payload, wallet, keyUsed) ==
    [msg |-> msg, type |-> typ, payload |-> payload, wallet |-> wallet,
     keyUsed |-> keyUsed]

\* what lightPush.send settles with: a result naming the peers that took the
\* message (successes; recipients in the old snapshot) and those that did not
\* (failures; errors in the old snapshot), or a rejection
SendResult(successes, failures) ==
    [threw |-> FALSE, successes |-> successes, failures |-> failures]
SendThrew == [threw |-> TRUE, successes |-> 0, failures |-> 0]
SendResults == {SendResult(1, 0), SendResult(0, 1), SendResult(1, 1), SendThrew}

\* what the promise of emit settles with.  new: return res && res.successes
\* && res.successes.length > 0; old: return res
Returns(kind, value) == [kind |-> kind, value |-> value]
successReported(res) ==
    IF version = "new" THEN Returns("boolean", res.successes > 0)
    ELSE Returns("object", res.successes > 0)
Rejects == Returns("rejected", FALSE)

\* one settled call of emit: its encryptionKey argument, the serialized
\* envelope, whether send was reached (encrypt did not throw), the bytes handed
\* to it, what it settled with, and what emit settled with
EmitCall(encryptionKey, plain, sent, bytes, res, ret) ==
    [encryptionKey |-> encryptionKey, plain |-> plain, sent |-> sent,
     bytes |-> bytes, res |-> res, ret |-> ret]

\* the block after the send as it was before it was commented out:
\* if (res && res.errors && res.errors.length > 0) this.emitCache.push(..)
pushFailed(cache, msg, res) ==
    IF ~res.threw /\ res.failures > 0
    THEN Append(cache, [msg |-> msg, encoder |-> "encoder"])
    ELSE cache

\* the block after the send as it is: a comment, the cache is not touched
afterSend(cache, msg, res) == cache

\* emit(typ, payload, wallet, encryptionKey, ephemeral) at time `now`.  The
\* encoder gives the message its content topic, ephemeral flag and transport
\* timestamp; `res`: what lightPush.send settles with.  A throwing encrypt
\* and a rejecting send reject the promise emit returned: neither snapshot
\* has a try around them.
emit(typ, payload, wallet, encryptionKey, ephemeral, now, res) ==
    LET dmsg == emitEnvelope(typ, payload, now, wallet)
        enc  == encryptPayload(chooseEncryptionKey(encryptionKey), PlainBytes(dmsg))
        msg  == WakuMessage(DefaultTopic, enc.bytes, now, ephemeral)
    IN /\ IF enc.threw
          THEN /\ escaped' = escaped \cup {[call |-> 0, what |-> "emit rejected"]}
               /\ returned' = Append(returned,
                       EmitCall(encryptionKey, PlainBytes(dmsg), FALSE, PlainBytes(dmsg),
                                SendThrew, Rejects))
               /\ UNCHANGED <<network, emitCache>>
          ELSE /\ network' =
                    IF ~res.threw /\ res.successes > 0
                    THEN [relay   |-> network.relay \cup {msg},
                          archive |-> IF ephemeral THEN network.archive
                                      ELSE network.archive \cup {msg},
                          sent    |-> network.sent \cup
                                      {Sent(msg, typ, payload, wallet, enc.used)}]
                    ELSE network
               /\ returned' = Append(returned,
                       EmitCall(encryptionKey, PlainBytes(dmsg), TRUE, enc.bytes, res,
                                IF res.threw THEN Rejects ELSE successReported(res)))
               /\ escaped' = IF res.threw
                             THEN escaped \cup {[call |-> 0, what |-> "emit rejected"]}
                             ELSE escaped
               /\ emitCache' = afterSend(emitCache, msg, res)
       /\ UNCHANGED <<envVars, queryVars, reemitting, reemitPc, resent, drains,
                      resubVars, mapping, keyVars, msgHashes, lifeVars, db, calls, log,
                      epoch>>

(***************************************************************************)
(* Dispatcher.emitFromCache.  emitCache is a public field; the only push   *)
(* onto it inside the class (emitTo, after a send that reported errors) is *)
(* commented out, and so is the timer that would call emitFromCache: both  *)
(* are left to code outside the class.                                     *)
(***************************************************************************)
\* {msg, encoder}: the n-th message put into emitCache
EmitCache(n) ==
    [msg |-> WakuMessage(DefaultTopic,
                         PlainBytes(emitEnvelope("hello", StrVal("p1"), n, "")), n, FALSE),
     encoder |-> "encoder"]

\* this.emitCache.push({msg: msg, encoder: encoder})
emitCachePush(entry) ==
    /\ emitCache' = Append(emitCache, entry)
    /\ UNCHANGED <<envVars, queryVars, reemitting, reemitPc, resent, returned, drains,
                   resubVars, mapping, keyVars, msgHashes, lifeVars, db, network,
                   app, histVars, epoch>>

\* the statement this.emitCache.slice(1, l): slice returns a copy without
\* the first element, which the statement drops; the field keeps its array
sliceDropped(cache, from, to) ==
    LET copy == slice(cache, from, to) IN cache

\* a guard that never sees the latch
unlatched(latch) == FALSE

\* if (this.reemitting) return
latched(latch) == latch

\* a call of emitFromCache, up to its first await: return while another call
\* holds the latch; take the latch; with an empty cache release it at once,
\* else l = this.emitCache.length and the first send is awaited
emitFromCache ==
    /\ IF latched(reemitting)
       THEN /\ drains' = [calls |-> drains.calls + 1, refused |-> drains.refused + 1]
            /\ UNCHANGED <<reemitting, reemitPc>>
       ELSE /\ drains' = [drains EXCEPT !.calls = @ + 1]
            /\ IF Len(emitCache) > 0
               THEN /\ reemitting' = TRUE
                    /\ reemitPc' = [at |-> "send", i |-> 0, l |-> Len(emitCache)]
               ELSE UNCHANGED <<reemitting, reemitPc>>
    /\ UNCHANGED <<envVars, queryVars, emitCache, resent, returned, resubVars,
                   mapping, keyVars, msgHashes, lifeVars, db, network, app,
                   histVars, epoch>>

\* lightPush.send(toEmit.encoder, toEmit.msg) settles, toEmit = emitCache[0].
\* Rejected: the call ends there, with the latch still set (no try/finally).
\* With failures (errors in the old snapshot): break, the latch is released.
\* Else the slice, and sleep(1000) is awaited.
emitFromCacheSendSettled(res) ==
    /\ reemitPc.at = "send"
    /\ emitCache # <<>>
    /\ resent' = Append(resent, [entry |-> emitCache[1], res |-> res, i |-> reemitPc.i])
    /\ network' = IF ~res.threw /\ res.successes > 0
                  THEN [network EXCEPT !.relay = @ \cup {emitCache[1].msg},
                                       !.archive = @ \cup {emitCache[1].msg}]
                  ELSE network
    /\ IF res.threw
       THEN /\ reemitPc' = ReemitIdle
            /\ UNCHANGED <<reemitting, emitCache>>
       ELSE IF res.failures > 0
            THEN /\ reemitPc' = ReemitIdle
                 /\ reemitting' = FALSE
                 /\ UNCHANGED emitCache
            ELSE /\ emitCache' = sliceDropped(emitCache, 1, reemitPc.l)
                 /\ reemitPc' = [reemitPc EXCEPT !.at = "sleep"]
                 /\ UNCHANGED reemitting
    /\ UNCHANGED <<envVars, queryVars, returned, drains, resubVars, mapping, keyVars,
                   msgHashes, lifeVars, db, app, histVars, epoch>>

\* sleep(1000) is over: i++, and i < l sends again, else the latch is released
emitFromCacheSleepOver ==
    /\ reemitPc.at = "sleep"
    /\ IF reemitPc.i + 1 < reemitPc.l
       THEN /\ reemitPc' = [reemitPc EXCEPT !.at = "send", !.i = @ + 1]
            /\ UNCHANGED reemitting
       ELSE /\ reemitPc' = ReemitIdle
            /\ reemitting' = FALSE
    /\ UNCHANGED <<envVars, queryVars, emitCache, resent, returned, drains, resubVars,
                   mapping, keyVars, msgHashes, lifeVars, db, network, app,
                   histVars, epoch>>

(***************************************************************************)
(* The messages the transport may hold: one per kind of inbound message.   *)
(***************************************************************************)
\* an unsigned, unencrypted "hello" as emit makes it
mPlain == WakuMessage(DefaultTopic,
                      PlainBytes(emitEnvelope("hello", StrVal("p1"), 11, "")), 1000, FALSE)
\* signed by alice, encrypted to pk1
mEncSigned == WakuMessage(DefaultTopic,
                  encryptBytes(Asymetric, "pk1",
                      PlainBytes(emitEnvelope("hello", StrVal("p2"), 12, "alice"))),
                  2000, FALSE)
\* on the other content topic, from a sender that sets no envelope timestamp
mOther == WakuMessage(OtherTopic,
                      PlainBytes(emitEnvelope("hello", StrVal("p3"), 0, "")), 3000, FALSE)
\* bytes that are no JSON
mGarbage == WakuMessage(DefaultTopic, utf8ToBytes(GarbageText), 4000, FALSE)
\* a message the transport delivers without a timestamp
mNoTimestamp == WakuMessage(DefaultTopic,
                      PlainBytes(emitEnvelope("hello", StrVal("p1"), 11, "")), 0, FALSE)
\* ephemeral; claims alice as signer, signed by mallory
mForged == WakuMessage(DefaultTopic,
               PlainBytes([emitEnvelope("hello", StrVal("p4"), 13, "alice") EXCEPT
                   !.signature = signMessageSync("mallory",
                       stringifyUnsigned(Envelope("hello", StrVal("p4"), 13, NoSig, "alice")))]),
               5000, TRUE)
\* a signature that is no signature
mMalformed == WakuMessage(DefaultTopic,
               PlainBytes([emitEnvelope("hello", StrVal("p5"), 14, "alice") EXCEPT
                   !.signature = MalformedSig]),
               6000, FALSE)

Inbound == {mPlain, mEncSigned, mOther, mGarbage, mNoTimestamp, mForged, mMalformed}

(***************************************************************************)
(* The application.  It makes its calls one after the other, in the order  *)
(* of a script; the transport's events interleave with them.  A call is a  *)
(* record [op, ..arguments..].                                             *)
(***************************************************************************)
AppCall(op, cb, v, e, ct, sl, key, keyType, auto) ==
    [op |-> op, callback |-> cb, verifySender |-> v, acceptOnlyEcrypted |-> e,
     contentTopic |-> ct, storeLocally |-> sl, key |-> key, keyType |-> keyType,
     autoEncrypt |-> auto]

\* on("hello", cb, verifySender, acceptOnlyEcrypted, contentTopic, storeLocally)
On(cb, v, e, ct, sl) == AppCall("on", cb, v, e, ct, sl, "", "", FALSE)
RegisterKey(key, keyType, auto) ==
    AppCall("registerKey", "", "", "", "", "", key, keyType, auto)
Plain(op) == AppCall(op, "", "", "", "", "", "", "", FALSE)

OnA     == On("cbA", "undefined", "undefined", "", "undefined")
OnA2    == On("cbA2", "undefined", "undefined", "", "undefined")
OnV     == On("cbV", "true", "false", "", "true")
OnE     == On("cbE", "false", "true", DefaultTopic, "undefined")
OnT     == On("cbT", "false", "false", OtherTopic, "false")
OnThrow == On("cbThrow", "undefined", "undefined", "", "undefined")

AppScripts ==
    { <<OnV, OnA, RegisterKey("sk1", Asymetric, FALSE), Plain("start"),
        Plain("clearDuplicateCache")>>,
      <<RegisterKey("sk1", Asymetric, FALSE), OnE, OnT, Plain("start"), Plain("stop")>>,
      <<OnThrow, OnA, Plain("start")>>,
      <<OnA, Plain("start"), OnA2>> }

NextCall(op) == app # <<>> /\ Head(app).op = op /\ app' = Tail(app)

AppOn ==
    /\ NextCall("on")
    /\ on("hello", Head(app).callback, Head(app).verifySender,
          Head(app).acceptOnlyEcrypted, Head(app).contentTopic,
          Head(app).storeLocally)

AppRegisterKey ==
    /\ NextCall("registerKey")
    /\ registerKey(Head(app).key, Head(app).keyType, Head(app).autoEncrypt)

AppStart == NextCall("start") /\ start

AppStartReturns == NextCall("start") /\ startReturns

AppStop == NextCall("stop") /\ stop

AppClearDuplicateCache == NextCall("clearDuplicateCache") /\ clearDuplicateCache

AppDispatchLocalQuery == NextCall("dispatchLocalQuery") /\ dispatchLocalQuery

\* what a previous run left in the object store
StoredBefore == StoreMsg(In, mEncSigned, HashOf(mEncSigned))

InitWith(relay, archive) ==
    /\ version \in Versions
    /\ InitDispatcher
    /\ InitModule
    /\ db \in {{}, {StoredBefore}}
    /\ network = [relay |-> relay, archive |-> archive, sent |-> {}]
    /\ app \in AppScripts

NextWith(maxCalls) ==
    LET CanDispatch == Len(calls) < maxCalls
    IN \/ AppOn
       \/ AppRegisterKey
       \/ AppStart
       \/ AppStop
       \/ AppClearDuplicateCache
       \/ startPeerSettled(TRUE)
       \/ startSubscribeSettled(TRUE)
       \/ \E ok \in BOOLEAN : stopUnsubscribeSettled(ok)
       \/ \E m \in network.relay : CanDispatch /\ onSubscriptionMessage(m)
       \/ \E r \in db : CanDispatch /\ dispatchLocalQueryReplay(r)
       \/ \E m \in network.archive : CanDispatch /\ dispatchLocalQueryNetwork(m)
       \/ \E m \in network.archive : CanDispatch /\ dispatchRegularQuery(m)
       \/ \E m \in network.archive : CanDispatch /\ checkSubscriptionQuery(m)
       \/ \E i \in 1..Len(calls), f \in StoreFaults : dispatchContinue(i, f)

(***************************************************************************)
(* Spec: duplicates and sessions.  Two messages, each offered live, by the *)
(* archive and (one of them) by the local store.                           *)
(***************************************************************************)
Init == InitWith({mPlain, mEncSigned}, {mPlain})
Next == NextWith(MaxDispatch)
Spec == Init /\ [][Next]_vars

(***************************************************************************)
(* SpecRoute: routing.  Every kind of inbound message.                     *)
(***************************************************************************)
InitRoute == InitWith(Inbound, {mPlain, mEncSigned})
NextRoute == NextWith(MaxRouteCalls)
SpecRoute == InitRoute /\ [][NextRoute]_vars

(***************************************************************************)
(* SpecCache: the duplicate cache under a long run of distinct messages.   *)
(* A remote peer publishes ephemeral messages one after the other; the     *)
(* relay pushes each to the subscription and keeps none, and each is       *)
(* dispatched before the next is published.  CacheMsg(n) carries the       *)
(* transport timestamp of second n, so any two have different hashes.      *)
(* Nobody is registered for their type.                                    *)
(***************************************************************************)
MaxCacheMsgs == 2002     \* messages published in one behaviour of SpecCache

CacheMsg(n) ==
    WakuMessage(DefaultTopic, PlainBytes(emitEnvelope("nobody", StrVal("p1"), 11, "")),
                n * MsPerSecond, TRUE)

InitCache ==
    /\ version \in Versions
    /\ InitDispatcher
    /\ InitModule
    /\ db = {}
    /\ network = [relay |-> {}, archive |-> {}, sent |-> {}]
    /\ app = <<Plain("start")>>

NoneInFlight == IF calls = <<>> THEN TRUE ELSE calls[Len(calls)].pc # "await"

\* a remote peer publishes the next message
remotePublish(msg) ==
    /\ msg \notin network.relay
    /\ network' = [network EXCEPT !.relay = {msg}]
    /\ UNCHANGED <<envVars, queryVars, emitVars, resubVars, mapping, keyVars, msgHashes, lifeVars, db, app, histVars,
                   epoch>>

NextCache ==
    \/ AppStart
    \/ startPeerSettled(TRUE)
    \/ startSubscribeSettled(TRUE)
    \/ /\ NoneInFlight
       /\ Len(calls) < MaxCacheMsgs
       /\ transportSubs # {}
       /\ remotePublish(CacheMsg(Len(calls) + 1))
    \/ \E m \in network.relay :
          /\ m = CacheMsg(Len(calls) + 1)
          /\ onSubscriptionMessage(m)
    \/ \E i \in {Len(calls)} \ {0} : dispatchContinue(i, "none")

SpecCache == InitCache /\ [][NextCache]_vars

(***************************************************************************)
(* SpecVerify: Dispatcher.verifySender as a function.  The envelopes are   *)
(* drawn from Envelopes; a call is logged with what it did: returned true, *)
(* returned false, or threw.                                               *)
(***************************************************************************)
MaxVerifyCalls == 1      \* verifySender calls in one behaviour of SpecVerify

Wallets == {"alice", "mallory"}
VerifyPayloads == {StrVal("p1"), MapVal("m1")}
VerifyTimestamps == {0, 11}

SignedTexts ==
    {SigText("hello", stringifyPlain(p), ts, w) :
        p \in VerifyPayloads, ts \in VerifyTimestamps, w \in Wallets}

Signatures ==
    {NoSig, MalformedSig} \cup
    {signMessageSync(w, text) : w \in Wallets, text \in SignedTexts}

Envelopes ==
    {Envelope("hello", p, ts, sig, signer) :
        p \in VerifyPayloads, ts \in VerifyTimestamps, sig \in Signatures,
        signer \in Wallets \cup {""}}

verifySenderResult(dmsg) ==
    IF verifySenderThrows(dmsg) THEN "throw"
    ELSE IF verifySender(dmsg) THEN "true" ELSE "false"

verifySenderCall(dmsg) ==
    /\ Len(log) < MaxVerifyCalls
    /\ log' = Append(log, [ev |-> "verify", dmsg |-> dmsg,
                           result |-> verifySenderResult(dmsg)])
    /\ UNCHANGED <<envVars, queryVars, emitVars, resubVars, mapping, keyVars, msgHashes, lifeVars, db, network, app,
                   calls, escaped, epoch>>

InitVerify ==
    /\ version \in Versions
    /\ InitDispatcher
    /\ InitModule
    /\ db = {}
    /\ network = [relay |-> {}, archive |-> {}, sent |-> {}]
    /\ app = <<>>

NextVerify == \E dmsg \in Envelopes : verifySenderCall(dmsg)

SpecVerify == InitVerify /\ [][NextVerify]_vars

(***************************************************************************)
(* SpecRoundTrip: emit, then dispatch of what was emitted.  The            *)
(* application registers one callback, maybe a key, starts, and emits one  *)
(* message; the relay pushes it back to the subscription.  The object      *)
(* store works.                                                            *)
(***************************************************************************)
EmitTime == 21000        \* (new Date()).getTime() at the emit, in ms

Emit(payload, wallet, encryptionKey) ==
    [op |-> "emit", type |-> "hello", payload |-> payload, wallet |-> wallet,
     encryptionKey |-> encryptionKey, ephemeral |-> FALSE, now |-> EmitTime]

AppEmit ==
    /\ NextCall("emit")
    /\ \E res \in SendResults :
          emit(Head(app).type, Head(app).payload, Head(app).wallet,
               Head(app).encryptionKey, Head(app).ephemeral, Head(app).now, res)

RoundTripPayloads == {StrVal("p1"), MapVal("m1"), DateVal("d1"), ObjVal}
RoundTripKeyArgs  == {NoKeyArg, FalseKeyArg, RawKey("pk1"), KeyObj("sym1", Symmetric)}
RoundTripKeySetups ==
    { <<>>,
      <<RegisterKey("sk1", Asymetric, FALSE)>>,
      <<RegisterKey("sym1", Symmetric, FALSE)>>,
      <<RegisterKey("sym1", Symmetric, TRUE)>> }

RoundTripScripts ==
    { <<reg>> \o keys \o <<Plain("start"), Emit(p, w, k)>> :
        reg \in {OnA, OnV, OnE}, keys \in RoundTripKeySetups,
        p \in RoundTripPayloads, w \in {"", "alice"}, k \in RoundTripKeyArgs }

InitRoundTrip ==
    /\ version \in Versions
    /\ InitDispatcher
    /\ InitModule
    /\ db = {}
    /\ network = [relay |-> {}, archive |-> {}, sent |-> {}]
    /\ app \in RoundTripScripts

NextRoundTrip ==
    \/ AppOn
    \/ AppRegisterKey
    \/ AppStart
    \/ AppEmit
    \/ startPeerSettled(TRUE)
    \/ startSubscribeSettled(TRUE)
    \/ \E m \in network.relay : Len(calls) < MaxRouteCalls /\ onSubscriptionMessage(m)
    \/ \E i \in 1..Len(calls) : dispatchContinue(i, "none")

SpecRoundTrip == InitRoundTrip /\ [][NextRoundTrip]_vars

(***************************************************************************)
(* SpecEmit: publishing over the life of a dispatcher.  The application    *)
(* registers, starts, emits, stops, starts again and emits again, or emits *)
(* before it starts; every send delivers, fails, does both or rejects; the *)
(* relay pushes what was delivered back to the subscription.               *)
(***************************************************************************)
MaxEmitCalls == 2        \* dispatch calls in one behaviour of SpecEmit

EmitScripts ==
    { <<OnA, Plain("start"), Emit(StrVal("p1"), "", NoKeyArg),
        Emit(MapVal("m1"), "alice", RawKey("pk1")), Plain("stop"), Plain("start"),
        Emit(StrVal("p1"), "alice", NoKeyArg)>>,
      <<Emit(StrVal("p1"), "", NoKeyArg), OnV, Plain("start"),
        Emit(DateVal("d1"), "", KeyObj("sym1", Symmetric)), Plain("stop")>> }

InitEmit ==
    /\ version \in Versions
    /\ InitDispatcher
    /\ InitModule
    /\ db = {}
    /\ network = [relay |-> {}, archive |-> {}, sent |-> {}]
    /\ app \in EmitScripts

NextEmit ==
    \/ AppOn
    \/ AppStart
    \/ AppStop
    \/ AppEmit
    \/ startPeerSettled(TRUE)
    \/ startSubscribeSettled(TRUE)
    \/ \E ok \in BOOLEAN : stopUnsubscribeSettled(ok)
    \/ \E m \in network.relay : Len(calls) < MaxEmitCalls /\ onSubscriptionMessage(m)
    \/ \E i \in 1..Len(calls) : dispatchContinue(i, "none")

SpecEmit == InitEmit /\ [][NextEmit]_vars

(***************************************************************************)
(* SpecLate: registrations and keys that come after the messages.  The     *)
(* application starts before it registers a callback, or registers one     *)
(* that accepts only encrypted messages and the key later; a plain and an  *)
(* encrypted "hello" are offered live and again by the archive.            *)
(***************************************************************************)
MaxLateCalls == 2        \* dispatch calls in one behaviour of SpecLate

LateScripts ==
    { <<Plain("start"), OnA, Plain("clearDuplicateCache"), Plain("stop")>>,
      <<OnE, Plain("start"), RegisterKey("sk1", Asymetric, FALSE)>> }

InitLate ==
    /\ version \in Versions
    /\ InitDispatcher
    /\ InitModule
    /\ db = {}
    /\ network = [relay |-> {mPlain, mEncSigned}, archive |-> {mPlain, mEncSigned},
                  sent |-> {}]
    /\ app \in LateScripts

NextLate == NextWith(MaxLateCalls)
SpecLate == InitLate /\ [][NextLate]_vars

(***************************************************************************)
(* SpecDecrypt: Dispatcher.decrypt as a function of the registered keys.   *)
(* The application registers keys with registerKey, in any order; a call   *)
(* of decrypt is logged with the keys it saw and what it did.              *)
(***************************************************************************)
MaxKeys == 3             \* registered keys in one behaviour of SpecDecrypt
MaxDecryptCalls == 1     \* decrypt calls in one behaviour of SpecDecrypt

\* the keys an application registers; the last is a shared secret registered
\* under the default type
DecryptKeys ==
    {KeyObj("sk1", Asymetric), KeyObj("sk2", Asymetric),
     KeyObj("sym1", Symmetric), KeyObj("sym2", Symmetric),
     KeyObj("sym1", Asymetric)}

DecryptText == stringifyEnvelope(emitEnvelope("hello", StrVal("p1"), 11, ""))

\* payloads: plaintext, ciphertext for each key, and for a key nobody holds
DecryptBytes ==
    {utf8ToBytes(DecryptText)} \cup
    {encryptBytes(Asymetric, pk, utf8ToBytes(DecryptText)) : pk \in {"pk1", "pk2", "pk9"}} \cup
    {encryptBytes(Symmetric, k, utf8ToBytes(DecryptText)) : k \in {"sym1", "sym2"}}

decryptCall(bytes) ==
    /\ Len(log) < MaxDecryptCalls
    /\ log' = Append(log, [ev |-> "decrypt", keys |-> decryptionKeys, bytes |-> bytes,
                           result |-> decrypt(decryptionKeys, bytes)])
    /\ UNCHANGED <<envVars, queryVars, emitVars, resubVars, mapping, keyVars, msgHashes, lifeVars, db, network, app,
                   calls, escaped, epoch>>

registerKeyCall(k, auto) ==
    /\ Len(decryptionKeys) < MaxKeys
    /\ registerKey(k.key, k.type, auto)
    /\ UNCHANGED app

InitDecrypt ==
    /\ version \in Versions
    /\ InitDispatcher
    /\ InitModule
    /\ db = {}
    /\ network = [relay |-> {}, archive |-> {}, sent |-> {}]
    /\ app = <<>>

NextDecrypt ==
    \/ \E k \in DecryptKeys, auto \in BOOLEAN : registerKeyCall(k, auto)
    \/ \E bytes \in DecryptBytes : decryptCall(bytes)

SpecDecrypt == InitDecrypt /\ [][NextDecrypt]_vars

(***************************************************************************)
(* SpecOn: registration.  The application calls on() twice before start:   *)
(* with the same callback and the same options, with the same callback and *)
(* other options, with two closures of the same source text (cbA2 first),  *)
(* and with two different callbacks; one "hello" message is offered live,  *)
(* by the archive and by the local store.                                  *)
(***************************************************************************)
MaxOnCalls == 1          \* dispatch calls in one behaviour of SpecOn

OnAStrict == On("cbA", "true", "undefined", "", "undefined")

OnScripts ==
    { <<OnA, OnA, Plain("start")>>,
      <<OnA, OnAStrict, Plain("start")>>,
      <<OnA2, OnA, Plain("start")>>,
      <<OnA, OnV, RegisterKey("sk1", Asymetric, FALSE), Plain("start"),
        Plain("clearDuplicateCache"), Plain("stop")>> }

InitOn ==
    /\ version \in Versions
    /\ InitDispatcher
    /\ InitModule
    /\ db \in {{}, {StoredBefore}}
    /\ network = [relay |-> {mPlain}, archive |-> {mPlain, mEncSigned}, sent |-> {}]
    /\ app \in OnScripts

NextOn == NextWith(MaxOnCalls)
SpecOn == InitOn /\ [][NextOn]_vars

(***************************************************************************)
(* SpecResub: the old snapshot's subscription upkeep.  The application     *)
(* registers a callback, starts and later stops; the heartbeat calls       *)
(* checkSubscription; ping, unsubscribeAll, createSubscription, subscribe  *)
(* and the query each resolve or reject.                                   *)
(***************************************************************************)
MaxResubCalls == 1       \* dispatch calls in one behaviour of SpecResub

InitResub ==
    /\ version = "old"
    /\ InitDispatcher
    /\ InitModule
    /\ db = {}
    /\ network = [relay |-> {}, archive |-> {mPlain}, sent |-> {}]
    /\ app = <<OnA, Plain("start"), Plain("stop")>>

NextResub ==
    \/ AppOn
    \/ AppStart
    \/ AppStop
    \/ startPeerSettled(TRUE)
    \/ startSubscribeSettled(TRUE)
    \/ \E ok \in BOOLEAN : stopUnsubscribeSettled(ok)
    \/ checkSubscription("heartbeat")
    \/ \E ok \in BOOLEAN : pingSettled(ok)
    \/ \E ok \in BOOLEAN : unsubscribeAllSettled(ok)
    \/ \E ok \in BOOLEAN : createSubscriptionSettled(ok)
    \/ \E ok \in BOOLEAN : subscribeSettled(ok)
    \/ \E ok \in BOOLEAN : querySettled(ok)
    \/ resubscribeRetry
    \/ \E m \in network.archive : Len(calls) < MaxResubCalls /\ checkSubscriptionDispatch(m)
    \/ \E i \in 1..Len(calls) : dispatchContinue(i, "none")

SpecResub == InitResub /\ [][NextResub]_vars

(***************************************************************************)
(* SpecDisconnect: peers disconnect from a started dispatcher of either    *)
(* snapshot.  The listener start() installed runs on every peer:disconnect *)
(* event; in the old snapshot the heartbeat runs as well, and every call   *)
(* of the transport resolves or rejects.  The application registers on the *)
(* default content topic or on another one, before start() or after it.    *)
(***************************************************************************)
DisconnectScripts ==
    { <<OnA, Plain("start")>>,
      <<OnT, Plain("start")>>,
      <<OnA, Plain("start"), OnT>> }

InitDisconnect ==
    /\ version \in Versions
    /\ InitDispatcher
    /\ InitModule
    /\ db = {}
    /\ network = [relay |-> {}, archive |-> {}, sent |-> {}]
    /\ app \in DisconnectScripts

NextDisconnect ==
    \/ AppOn
    \/ AppStart
    \/ startPeerSettled(TRUE)
    \/ startSubscribeSettled(TRUE)
    \/ \E trigger \in CheckTriggers : checkSubscription(trigger)
    \/ peerDisconnectLogged
    \/ \E ok \in BOOLEAN : pingSettled(ok)
    \/ \E ok \in BOOLEAN : unsubscribeAllSettled(ok)
    \/ \E ok \in BOOLEAN : createSubscriptionSettled(ok)
    \/ \E ok \in BOOLEAN : subscribeSettled(ok)
    \/ \E ok \in BOOLEAN : querySettled(ok)
    \/ resubscribeRetry

SpecDisconnect == InitDisconnect /\ [][NextDisconnect]_vars

(***************************************************************************)
(* SpecReconcile: the store queries of a dispatcher over time.  The        *)
(* application registers, starts and calls dispatchLocalQuery on an empty  *)
(* object store, as the example application does on its first run; the     *)
(* clock advances; the heartbeat runs dispatchRegularQuery (new) or        *)
(* checkSubscription (old); every call of the transport resolves or        *)
(* rejects.  The attempts of one sequence stay below                       *)
(* MAX_RESUBSCRIBE_ATTEMPTS, so no attempt tears the subscription down     *)
(* (SpecResub covers the teardown).                                        *)
(***************************************************************************)
MaxReconcileChecks == 1  \* checkSubscription calls in one behaviour of SpecReconcile
MaxReconcileRetries == 1 \* retried attempts in one sequence in SpecReconcile

InitReconcile ==
    /\ version \in Versions
    /\ InitDispatcher
    /\ InitModule
    /\ db = {}
    /\ network = [relay |-> {}, archive |-> {}, sent |-> {}]
    /\ app = <<OnA, Plain("start"), Plain("dispatchLocalQuery")>>

NextReconcile ==
    \/ AppOn
    \/ AppStart
    \/ AppDispatchLocalQuery
    \/ startPeerSettled(TRUE)
    \/ startSubscribeSettled(TRUE)
    \/ dispatchLocalQueryWindow
    \/ \E ok \in BOOLEAN : dispatchLocalQuerySettled(ok)
    \/ dispatchRegularQueryIssued
    \/ \E ok \in BOOLEAN : dispatchRegularQuerySettled(ok)
    \/ checks < MaxReconcileChecks /\ checkSubscription("heartbeat")
    \/ \E ok \in BOOLEAN : pingSettled(ok)
    \/ \E ok \in BOOLEAN : subscribeSettled(ok)
    \/ \E ok \in BOOLEAN : querySettled(ok)
    \/ resubscribeAttempts <= MaxReconcileRetries /\ resubscribeRetry
    \/ Tick

SpecReconcile == InitReconcile /\ [][NextReconcile]_vars

(***************************************************************************)
(* SpecReemit: the retry queue.  Code outside the class puts messages into *)
(* emitCache, as emitTo did before the push was commented out, and calls   *)
(* emitFromCache, as the timer of start() did; every send delivers, fails, *)
(* does both or rejects.                                                   *)
(***************************************************************************)
MaxQueued == 2           \* messages put into emitCache in one behaviour
MaxResent == 3           \* sends after which no further drain is started
MaxDrains == 3           \* calls of emitFromCache in one behaviour

InitReemit ==
    /\ version \in Versions
    /\ InitDispatcher
    /\ InitModule
    /\ db = {}
    /\ network = [relay |-> {}, archive |-> {}, sent |-> {}]
    /\ app = <<>>

NextReemit ==
    \/ Len(emitCache) < MaxQueued /\ emitCachePush(EmitCache(Len(emitCache) + 1))
    \/ Len(resent) < MaxResent /\ drains.calls < MaxDrains /\ emitFromCache
    \/ \E res \in SendResults : emitFromCacheSendSettled(res)
    \/ emitFromCacheSleepOver

SpecReemit == InitReemit /\ [][NextReemit]_vars

(***************************************************************************)
(* SpecStart: a start() that may fail.  The application registers and      *)
(* calls start() twice; waitForRemotePeer and the subscribe call each      *)
(* resolve or reject; after that the timer runs (dispatchRegularQuery in   *)
(* the new snapshot, checkSubscription in the old one), the clock advances *)
(* and one message is offered live.                                        *)
(***************************************************************************)
MaxStartCalls == 1       \* dispatch calls in one behaviour of SpecStart

InitStart ==
    /\ version \in Versions
    /\ InitDispatcher
    /\ InitModule
    /\ db = {}
    /\ network = [relay |-> {mPlain}, archive |-> {}, sent |-> {}]
    /\ app = <<OnA, Plain("start"), Plain("start")>>

NextStart ==
    \/ AppOn
    \/ AppStart
    \/ AppStartReturns
    \/ \E ok \in BOOLEAN : startPeerSettled(ok)
    \/ \E ok \in BOOLEAN : startSubscribeSettled(ok)
    \/ \E m \in network.relay : Len(calls) < MaxStartCalls /\ onSubscriptionMessage(m)
    \/ \E i \in 1..Len(calls) : dispatchContinue(i, "none")
    \/ dispatchRegularQueryIssued
    \/ \E ok \in BOOLEAN : dispatchRegularQuerySettled(ok)
    \/ checks < MaxReconcileChecks /\ checkSubscription("heartbeat")
    \/ \E ok \in BOOLEAN : pingSettled(ok)
    \/ \E ok \in BOOLEAN : subscribeSettled(ok)
    \/ \E ok \in BOOLEAN : querySettled(ok)
    \/ resubscribeAttempts <= MaxReconcileRetries /\ resubscribeRetry
    \/ Tick

SpecStart == InitStart /\ [][NextStart]_vars

(***************************************************************************)
(* SpecRestart: stop and start again.  The application registers, starts,  *)
(* stops, registers again and starts again; one message is offered live   *)
(* all along, and the archive holds a message encrypted for the key        *)
(* registered before the first start.                                      *)
(***************************************************************************)
MaxRestartCalls == 2     \* dispatch calls in one behaviour of SpecRestart

InitRestart ==
    /\ version \in Versions
    /\ InitDispatcher
    /\ InitModule
    /\ db = {}
    /\ network = [relay |-> {mPlain}, archive |-> {mEncSigned}, sent |-> {}]
    /\ app = <<RegisterKey("sk1", Asymetric, TRUE), OnA, Plain("start"),
               Plain("clearDuplicateCache"), Plain("stop"), OnA, Plain("start")>>

NextRestart == NextWith(MaxRestartCalls)
SpecRestart == InitRestart /\ [][NextRestart]_vars

(***************************************************************************)
(* SpecLocal: dispatchLocalQuery over what the object store may hold.  The *)
(* application registers, starts and calls dispatchLocalQuery, as the      *)
(* example application does; the store holds up to MaxStored of six        *)
(* messages, put there by earlier runs or by importLocalMessage: two with  *)
(* the same timestamp, a later one, one of the other content topic and two *)
(* without a timestamp.                                                    *)
(***************************************************************************)
MaxStored == 3           \* records in the object store in SpecLocal
MaxLocalCalls == 1       \* dispatch calls of the network query in SpecLocal

\* sent at the same time as mPlain
mSameTime == WakuMessage(DefaultTopic,
                         PlainBytes(emitEnvelope("hello", StrVal("p6"), 15, "")), 1000, FALSE)
\* a second message without a timestamp
mNoTimestamp2 == WakuMessage(DefaultTopic,
                             PlainBytes(emitEnvelope("hello", StrVal("p7"), 16, "")), 0, FALSE)

Storable == {mPlain, mSameTime, mEncSigned, mOther, mNoTimestamp, mNoTimestamp2}

LocalStores ==
    {recs \in SUBSET {StoreMsg(In, m, HashOf(m)) : m \in Storable} :
        Cardinality(recs) <= MaxStored}

QueryCalls == {i \in 1..Len(calls) : calls[i].origin = "startup"}

InitLocal ==
    /\ version \in Versions
    /\ InitDispatcher
    /\ InitModule
    /\ db \in LocalStores
    \* the old snapshot has no importLocalMessage: its store holds what its
    \* dispatch put there, messages of the decoder's topic with a timestamp
    /\ version = "old" =>
          \A r \in db : r.dmsg.timestamp # 0 /\ r.dmsg.contentTopic = DefaultTopic
    /\ network = [relay |-> {}, archive |-> {mPlain}, sent |-> {}]
    /\ app = <<OnA, Plain("start"), Plain("dispatchLocalQuery")>>

NextLocal ==
    \/ AppOn
    \/ AppStart
    \/ AppDispatchLocalQuery
    \/ startPeerSettled(TRUE)
    \/ startSubscribeSettled(TRUE)
    \/ dispatchLocalQueryLoop
    \/ dispatchLocalQueryResumed
    \/ dispatchLocalQueryWindow
    \/ \E m \in network.archive :
          Cardinality(QueryCalls) < MaxLocalCalls /\ dispatchLocalQueryDispatch(m)
    \/ \E ok \in BOOLEAN : dispatchLocalQuerySettled(ok)
    \/ \E i \in 1..Len(calls) : dispatchContinue(i, "none")
    \/ Tick

SpecLocal == InitLocal /\ [][NextLocal]_vars

(***************************************************************************)
(* The Store object by itself.  Its constructor calls indexedDB.open; the  *)
(* request settles later with success or error.                            *)
(*   new: readyPromise = openDB() is made once, resolved by onsuccess and  *)
(*        rejected by onerror; ready() returns it.                         *)
(*   old: every ready() makes a promise of its own, assigns its reject to  *)
(*        this.reject and a 100 ms interval to this.interval; the interval *)
(*        resolves the promise once this.db is set and then clears         *)
(*        this.interval, whichever interval that is by then; onerror calls *)
(*        this.reject if one is assigned.                                  *)
(* idb.readies holds one [state, timer] per ready() call: the state of the *)
(* promise it returned and whether its interval is still installed.        *)
(***************************************************************************)
Pending == [state |-> "pending", timer |-> FALSE]

allButStore == <<version, factory, mapping, keyVars, msgHashes, lifeVars, network, app,
                 histVars, epoch, resubVars, queryVars, emitVars>>

\* what a promise of the store's readiness is when it is made
readyPromise(st) ==
    IF st.open = "success" THEN "resolved"
    ELSE IF st.open = "error" THEN "rejected" ELSE "pending"

\* Store.ready()
ready(st) ==
    IF version = "new"
    THEN [st EXCEPT !.readies = Append(@, [state |-> readyPromise(st), timer |-> FALSE])]
    ELSE [st EXCEPT !.readies = Append(@, [state |-> "pending", timer |-> TRUE]),
                    !.reject = Len(st.readies) + 1,
                    !.interval = Len(st.readies) + 1]

\* the promises of st.readies settled as `state`, where they are pending
\* and `which` holds
Settle(st, state, which(_)) ==
    [st EXCEPT !.readies =
        [k \in 1..Len(st.readies) |->
            IF st.readies[k].state = "pending" /\ which(k)
            THEN [st.readies[k] EXCEPT !.state = state] ELSE st.readies[k]]]

\* dbOpen.onsuccess / dbOpen.onerror
openSettled(st, ok) ==
    LET any(k) == TRUE
        held(k) == k = st.reject
        done == [st EXCEPT !.open = IF ok THEN "success" ELSE "error", !.db = ok]
    IN IF version = "new"
       THEN Settle(done, IF ok THEN "resolved" ELSE "rejected", any)
       ELSE IF ok THEN done ELSE Settle(done, "rejected", held)

\* old: the interval of the k-th ready() fires while this.db is set
intervalFired(st, k) ==
    LET mine(j) == j = k
        resolved == Settle(st, "resolved", mine)
    IN [resolved EXCEPT !.readies =
           [j \in 1..Len(st.readies) |->
               IF j = st.interval THEN [resolved.readies[j] EXCEPT !.timer = FALSE]
               ELSE resolved.readies[j]]]

StoreReady ==
    /\ idb' = ready(idb)
    /\ UNCHANGED <<allButStore, db>>

StoreOpenSettled(ok) ==
    /\ idb.open = "pending"
    /\ idb' = openSettled(idb, ok)
    /\ UNCHANGED <<allButStore, db>>

StoreIntervalFired(k) ==
    /\ version = "old"
    /\ k \in 1..Len(idb.readies)
    /\ idb.readies[k].timer
    /\ idb.db
    /\ idb' = intervalFired(idb, k)
    /\ UNCHANGED <<allButStore, db>>

\* one call of Store.set and its add request, to the end.  The new set
\* awaits ready() first, so it gets no further while the open is pending.
StoreSet(smsg, fault) ==
    LET met == IF idb.db THEN fault ELSE "notReady"
        st  == set(db, smsg, met)
    IN /\ version = "new" => idb.open # "pending"
       /\ db' = st.db
       /\ idb' = [idb EXCEPT !.sets = Append(@, [hash |-> smsg.hash, met |-> met,
                                                  existed |-> KeyExists(db, smsg.hash),
                                                  result |-> SetResult(st)])]
       /\ UNCHANGED allButStore

(***************************************************************************)
(* SpecStore: a Store of its own.  The open request settles either way,    *)
(* ready() is called up to MaxReady times before or after that, and set is *)
(* called up to MaxSets times with records of two hashes; mSameHash has    *)
(* the hash of mPlain under another direction.                             *)
(***************************************************************************)
MaxReady == 2
MaxSets == 3

mSameHash == StoreMsg(Out, mPlain, HashOf(mPlain))
SetArgs == {StoreMsg(In, mPlain, HashOf(mPlain)), mSameHash,
            StoreMsg(In, mEncSigned, HashOf(mEncSigned))}

InitStore ==
    /\ version \in Versions
    /\ InitDispatcher
    /\ idb = NewStore
    /\ factory = NoFactory("dispatcher.ts")
    /\ db = {}
    /\ network = [relay |-> {}, archive |-> {}, sent |-> {}]
    /\ app = <<>>

NextStore ==
    \/ Len(idb.readies) < MaxReady /\ StoreReady
    \/ \E ok \in BOOLEAN : StoreOpenSettled(ok)
    \/ \E k \in 1..MaxReady : StoreIntervalFired(k)
    \/ \E smsg \in SetArgs, fault \in AddFaults :
          Len(idb.sets) < MaxSets /\ StoreSet(smsg, fault)

SpecStore == InitStore /\ [][NextStore]_vars

\* the open request settles and an installed interval keeps firing
SpecStoreFair ==
    /\ SpecStore
    /\ WF_vars(\E ok \in BOOLEAN : StoreOpenSettled(ok))
    /\ \A k \in 1..MaxReady : WF_vars(StoreIntervalFired(k))

(***************************************************************************)
(* getDispatcher and destroyDispatcher (the old snapshot: dispatcher.ts    *)
(* and, without the node argument, store.ready(), autostart and            *)
(* destroyDispatcher, index.ts).  factory holds the module variables       *)
(* dispatcher and initializing, where the one call that passed the guard   *)
(* is (pc: "idle", "node", "ready", "start"), where a destroyDispatcher    *)
(* call is (destroyPc: "idle", "stop"), how many getDispatcher and         *)
(* destroyDispatcher calls were made (gets, destroys), how many            *)
(* Dispatchers were constructed in all (made) and                          *)
(* since destroyDispatcher last found one (built), and what the calls      *)
(* returned.  The dispatcher variables describe the latest instance.       *)
(***************************************************************************)
Modules == {"dispatcher.ts", "index.ts"}

\* what a getDispatcher call returned: the instance (0 null, -1 a
\* rejection), whether a construction was in progress when the call was
\* made, whether this call did the construction, and the module variable
\* `dispatcher` when it returned
Return(f, value, busy, own) ==
    [value |-> value, busy |-> busy, own |-> own, current |-> f.dispatcher]

factoryRest == <<version, keyVars, db, network, app, histVars, resubVars, queryVars,
                 emitVars>>

\* if (dispatcher || initializing)
guard(f) == f.dispatcher # 0 \/ f.initializing

\* dispatcher = new Dispatcher(..), then await dispatcher.start() unless
\* autostart is false: initializing = false; return dispatcher
construct(f) ==
    LET built == [f EXCEPT !.dispatcher = f.made + 1, !.made = @ + 1, !.built = @ + 1]
    IN IF f.autostart
       THEN [built EXCEPT !.pc = "start"]
       ELSE [built EXCEPT !.pc = "idle", !.initializing = FALSE,
                          !.returns = Append(@, Return(built, built.dispatcher, FALSE, TRUE))]

\* the constructor's fields of the new instance and the first step of its start()
Constructs ==
    /\ factory' = construct(factory)
    /\ running' = factory.autostart
    /\ startPc' = IF factory.autostart THEN [at |-> "waitPeer", decoders |-> {}] ELSE Idle
    /\ subscription' = NoSubscription
    /\ hearbeatInterval' = "none"
    /\ filterConnected' = FALSE
    /\ UNCHANGED <<stopPc, transportSubs, mapping, msgHashes, epoch>>

\* the rejection of an awaited promise leaves getDispatcher: initializing stays
rejects(f) ==
    [f EXCEPT !.pc = "idle", !.returns = Append(@, Return(f, -1, FALSE, TRUE))]

\* a call of getDispatcher, up to its first await
getDispatcher(given, autostart) ==
    /\ factory.module = "index.ts" => ~given /\ autostart
    /\ IF guard(factory)
       THEN /\ factory' = [factory EXCEPT
                             !.gets = @ + 1,
                             !.returns = Append(@, Return(factory, factory.dispatcher,
                                                          factory.initializing, FALSE))]
            /\ UNCHANGED idb
       ELSE /\ factory' = [factory EXCEPT !.gets = @ + 1, !.initializing = TRUE,
                                          !.autostart = autostart,
                                          !.pc = IF given THEN "ready" ELSE "node"]
            \* const store = new Store(..); await store.ready()
            /\ idb' = IF given THEN ready(NewStore) ELSE idb
    /\ UNCHANGED <<factoryRest, lifeVars, mapping, msgHashes, epoch>>

\* createLightNode and waitForRemotePeer settle
getDispatcherNodeSettled(ok) ==
    /\ factory.pc = "node"
    /\ IF ~ok
       THEN /\ factory' = rejects(factory)
            /\ UNCHANGED <<idb, lifeVars, mapping, msgHashes, epoch>>
       ELSE IF factory.module = "dispatcher.ts"
       THEN /\ factory' = [factory EXCEPT !.pc = "ready"]
            /\ idb' = ready(NewStore)
            /\ UNCHANGED <<lifeVars, mapping, msgHashes, epoch>>
       ELSE \* index.ts: new Store(..) and the Dispatcher at once
            /\ idb' = NewStore
            /\ Constructs
    /\ UNCHANGED factoryRest

\* the promise of store.ready() settles
getDispatcherStoreReady ==
    /\ factory.pc = "ready"
    /\ idb.readies[1].state # "pending"
    /\ IF idb.readies[1].state = "rejected"
       THEN /\ factory' = rejects(factory)
            /\ UNCHANGED <<lifeVars, mapping, msgHashes, epoch>>
       ELSE Constructs
    /\ UNCHANGED <<factoryRest, idb>>

\* the promise of dispatcher.start() settles; the old start rejects when
\* the peer or the subscription fails, and installs its timer last
getDispatcherStarted ==
    /\ factory.pc = "start"
    /\ startPc.at = "idle"
    /\ factory' = IF hearbeatInterval # "none"
                  THEN [factory EXCEPT !.pc = "idle", !.initializing = FALSE,
                                       !.returns = Append(@, Return(factory, factory.dispatcher,
                                                                    FALSE, TRUE))]
                  ELSE rejects(factory)
    /\ UNCHANGED <<factoryRest, idb, lifeVars, mapping, msgHashes, epoch>>

\* if (!dispatcher) return; await dispatcher.stop()
destroyDispatcher ==
    /\ factory.module = "dispatcher.ts"
    /\ factory.destroyPc = "idle"
    /\ factory.dispatcher # 0
    /\ stopPc = "idle"
    /\ factory' = [factory EXCEPT !.destroyPc = "stop", !.destroys = @ + 1, !.built = 0]
    /\ running' = FALSE
    /\ hearbeatInterval' = clearInterval(hearbeatInterval)
    /\ IF subscription.obj
       THEN /\ stopPc' = "unsubscribe"
            /\ UNCHANGED <<subscription, msgHashes, mapping, epoch>>
       ELSE /\ subscription' = NoSubscription
            /\ msgHashes' = <<>>
            /\ mapping' = NoMapping
            /\ epoch' = epoch + 1
            /\ UNCHANGED stopPc
    /\ UNCHANGED <<factoryRest, idb, startPc, transportSubs, filterConnected>>

\* stop() settles: dispatcher = null, unless stop rejected
destroyDispatcherStopped ==
    /\ factory.destroyPc = "stop"
    /\ stopPc = "idle"
    /\ factory' = [factory EXCEPT !.destroyPc = "idle",
                                  !.dispatcher = IF subscription.obj THEN @ ELSE 0]
    /\ UNCHANGED <<factoryRest, idb, lifeVars, mapping, msgHashes, epoch>>

(***************************************************************************)
(* SpecFactory: up to MaxGets calls of getDispatcher, with and without a   *)
(* node and autostart, and up to MaxDestroys calls of destroyDispatcher,   *)
(* in any interleaving with the transport, the database and the start and  *)
(* stop of the Dispatcher settling either way.                             *)
(***************************************************************************)
MaxGets == 3
MaxDestroys == 1

InitFactory ==
    /\ version = "old"
    /\ InitDispatcher
    /\ idb = NewStore
    /\ factory \in {NoFactory(module) : module \in Modules}
    /\ db = {}
    /\ network = [relay |-> {}, archive |-> {}, sent |-> {}]
    /\ app = <<>>

NextFactory ==
    \/ \E given, autostart \in BOOLEAN :
          factory.gets < MaxGets /\ getDispatcher(given, autostart)
    \/ \E ok \in BOOLEAN : getDispatcherNodeSettled(ok)
    \/ \E ok \in BOOLEAN : factory.pc = "ready" /\ StoreOpenSettled(ok)
    \/ factory.pc = "ready" /\ StoreIntervalFired(1)
    \/ getDispatcherStoreReady
    \/ \E ok \in BOOLEAN : startPeerSettled(ok)
    \/ \E ok \in BOOLEAN : startSubscribeSettled(ok)
    \/ getDispatcherStarted
    \/ factory.destroys < MaxDestroys /\ destroyDispatcher
    \/ \E ok \in BOOLEAN : stopUnsubscribeSettled(ok)
    \/ destroyDispatcherStopped

SpecFactory == InitFactory /\ [][NextFactory]_vars

(***************************************************************************)
(* Reading the history.                                                    *)
(***************************************************************************)
LogIdx == 1..Len(log)
CallIdx == 1..Len(calls)
IsCallback(e) == e.ev = "callback"
IsPut(e) == e.ev = "put"
\* the session (epoch of the duplicate cache) in which the event's call was admitted
SessionOf(e) == calls[e.call].session
CallbackEvents == {n \in LogIdx : IsCallback(log[n])}

(***************************************************************************)
(* C1.  Within one session (no stop and no clearDuplicateCache between),   *)
(* whatever the order and interleaving of the dispatch calls (live, local  *)
(* replay, network pages, calls in flight together), a registered callback *)
(* is invoked at most once per transport-level hash.                       *)
(***************************************************************************)
C1_AtMostOncePerHash ==
    \A a, b \in CallbackEvents :
        (a # b /\ log[a].cb = log[b].cb /\ log[a].hash = log[b].hash)
            => SessionOf(log[a]) # SessionOf(log[b])

\* a callback was invoked for a hash and a later call with the same hash, in
\* the same session and from another origin, was refused
C1_Witness ==
    \E a \in CallbackEvents : \E j \in CallIdx :
        /\ j # log[a].call
        /\ calls[j].outcome = "duplicate"
        /\ HashOf(calls[j].msg) = log[a].hash
        /\ calls[j].session = SessionOf(log[a])
        /\ calls[j].origin # calls[log[a].call].origin

(***************************************************************************)
(* What a registration's checks are about, read off the message itself.    *)
(***************************************************************************)
\* the wire payload is a ciphertext that a registered key opens
DecryptedByRegisteredKey(msg) ==
    \E k \in 1..Len(decryptionKeys) : CanDecrypt(decryptionKeys[k], msg.payload)

\* the envelope dispatch works on, when the payload can be read
Parsable(msg) == ~decryptMessage(decryptionKeys, msg.payload).threw
Decoded(msg) == withTimestamp(decryptMessage(decryptionKeys, msg.payload).dmsg, msg)

\* the signature was made by the claimed signer over this very envelope
SignatureGood(dmsg) ==
    /\ dmsg.signature.kind = "valid"
    /\ dmsg.signature.by = dmsg.signer
    /\ dmsg.signature.over = stringifyUnsigned(dmsg)

\* the content topic a registration listens on (old: the dispatcher's only topic)
RegTopic(di) == IF version = "new" THEN di.contentTopic ELSE DefaultTopic

ChecksPass(di, msg, dmsg) ==
    /\ di.acceptOnlyEncrypted => DecryptedByRegisteredKey(msg)
    /\ RegTopic(di) = msg.contentTopic
    /\ di.verifySender => SignatureGood(dmsg)

\* the events this step added to the log
NewEvents == SubSeq(log', Len(log) + 1, Len(log'))
InvocationsOf(events, cb) ==
    Cardinality({n \in 1..Len(events) : IsCallback(events[n]) /\ events[n].cb = cb})

\* call i passed the duplicate check
Admitted(i) == calls[i].session # -1 /\ calls[i].outcome # "duplicate"
\* this step is the continuation of call i, and it ends with one of `outcomes`
Finishes(i, outcomes) ==
    /\ i \in CallIdx
    /\ calls[i].pc = "await"
    /\ calls'[i].pc = "done"
    /\ calls'[i].outcome \in outcomes

\* in the step that finishes call i, every registration of the message's type
\* whose checks pass is invoked exactly once
EachPassingInvokedOnce(i) ==
    LET msg  == calls[i].msg
        dmsg == Decoded(msg)
        infos == mappingGet(dmsg.type)
    IN \A k \in 1..Len(infos) :
          ChecksPass(infos[k], msg, dmsg)
              => InvocationsOf(NewEvents, infos[k].callback) = 1

C3_InvokedOnlyIfChecksPass ==
    \A a \in CallbackEvents : ChecksPass(log[a].reg, log[a].msg, log[a].dmsg)

\* store.set was called for the registration and threw
StoreThrewFor(events, cb) ==
    \E n \in 1..Len(events) :
        IsPut(events[n]) /\ events[n].cb = cb /\ events[n].result = "threw"

\* second sentence, for the step that finishes call i
FailingIsSkipped(i) ==
    LET msg  == calls[i].msg
        dmsg == Decoded(msg)
        infos == mappingGet(dmsg.type)
        passes(k) == ChecksPass(infos[k], msg, dmsg)
        ranWell(k) == /\ InvocationsOf(NewEvents, infos[k].callback) = 1
                      /\ ~CallbackThrows(infos[k].callback)
    IN \A k \in 1..Len(infos) :
          (/\ passes(k)
           /\ \A k2 \in 1..(k - 1) : passes(k2) => ranWell(k2)
           /\ ~StoreThrewFor(NewEvents, infos[k].callback))
              => InvocationsOf(NewEvents, infos[k].callback) = 1

C3_ChecksGateAndSkip ==
    /\ []C3_InvokedOnlyIfChecksPass
    /\ [][\A i \in CallIdx :
            Finishes(i, {"routed", "aborted"}) => FailingIsSkipped(i)]_vars

\* a registration that requires verification was skipped for a message whose
\* signature does not verify, and the registration after it was invoked
C3_Witness ==
    \E a \in CallbackEvents :
        LET infos == mappingGet(log[a].dmsg.type)
        IN \E k \in 1..Len(infos) :
              /\ infos[k].verifySender
              /\ ~SignatureGood(log[a].dmsg)
              /\ \E k2 \in (k + 1)..Len(infos) : infos[k2].callback = log[a].cb

(***************************************************************************)
(* C4.  store.set is never called by a dispatch whose message is a replay  *)
(* (every message replayed from the local store is one), whose message is  *)
(* ephemeral, or for a registration that has storeLocally = false.         *)
(***************************************************************************)
PutEvents == {n \in LogIdx : IsPut(log[n])}
\* the registration opted out of local storage (an option of the new on())
OptedOut(di) == version = "new" /\ ~di.storeLocally

C4_NoPutForReplayEphemeralOptOut ==
    \A a \in PutEvents :
        /\ ~calls[log[a].call].fromStorage
        /\ calls[log[a].call].origin # "local"
        /\ ~log[a].msg.ephemeral
        /\ ~OptedOut(log[a].reg)

\* a message replayed from the local store reached a callback of a registration
\* that stores locally, and store.set was not called for it
C4_Witness ==
    \E a \in CallbackEvents :
        /\ calls[log[a].call].origin = "local"
        /\ ~log[a].msg.ephemeral
        /\ ~OptedOut(log[a].reg)
        /\ \A b \in PutEvents : log[b].call # log[a].call

(***************************************************************************)
(* C5.  A live (non-replay), unencrypted, non-ephemeral message whose type *)
(* has one registration, with storeLocally = true and passing its checks:  *)
(* dispatch calls store.set exactly once, with direction In, the message   *)
(* and its transport hash as key, then invokes the callback, which         *)
(* receives the decoded payload.                                           *)
(***************************************************************************)
\* call i is the case C5 is about
LiveStoredCase(i) ==
    LET msg == calls[i].msg
        infos == mappingGet(Decoded(msg).type)
    IN /\ version = "new"
       /\ ~calls[i].fromStorage
       /\ msg.payload.enc = "none"
       /\ ~msg.ephemeral
       /\ Len(infos) = 1
       /\ infos[1].storeLocally
       /\ ChecksPass(infos[1], msg, Decoded(msg))

PutThenCallback(i) ==
    LET msg == calls[i].msg
        di == mappingGet(Decoded(msg).type)[1]
    IN /\ Len(NewEvents) = 2
       /\ IsPut(NewEvents[1])
       /\ NewEvents[1].direction = In
       /\ NewEvents[1].msg = msg
       /\ NewEvents[1].hash = HashOf(msg)
       /\ IsCallback(NewEvents[2])
       /\ NewEvents[2].cb = di.callback
       /\ NewEvents[2].payload = parseEnvelope(msg.payload.text).payload

C5_PutOnceThenCallback ==
    [][\A i \in CallIdx :
          (Finishes(i, {"routed", "aborted"}) /\ LiveStoredCase(i))
              => PutThenCallback(i)]_vars

\* a live plaintext message was saved and delivered to the type's only
\* registration, and the store holds it under its hash
C5_Witness ==
    \E a \in PutEvents : \E b \in CallbackEvents :
        /\ a < b
        /\ log[a].call = log[b].call
        /\ version = "new"
        /\ calls[log[a].call].origin = "live"
        /\ log[a].msg.payload.enc = "none"
        /\ Len(mappingGet(log[a].dmsg.type)) = 1
        /\ \E r \in db : r.hash = log[a].hash /\ r.direction = In /\ r.dmsg = log[a].msg

(***************************************************************************)
(* C6.  Messages of a network historical query and the replay flag.        *)
(*   the periodic query (new): replay flag true                            *)
(*   the startup query of dispatchLocalQuery: new: replay flag false;      *)
(*     old: false when the local store held history, true when it did not  *)
(*   the query after a resubscription (old): replay flag false             *)
(* and the callback's fromStore is the replay flag, and store.set is       *)
(* called only when it is false.                                           *)
(***************************************************************************)

C6_ReplayFlagOfQueries ==
    /\ \A i \in CallIdx :
          /\ calls[i].origin = "regular" => calls[i].fromStorage
          /\ calls[i].origin = "resubscribe" => ~calls[i].fromStorage
          /\ (calls[i].origin = "startup" /\ version = "new") => ~calls[i].fromStorage
          /\ (calls[i].origin = "startup" /\ version = "old" /\ ~HadLocalHistory)
                => calls[i].fromStorage
    /\ \A a \in LogIdx :
          calls[log[a].call].origin \in QueryOrigins =>
              /\ IsCallback(log[a]) => log[a].meta.fromStore = calls[log[a].call].fromStorage
              /\ IsPut(log[a]) => ~calls[log[a].call].fromStorage

\* a message of the periodic query reached a callback as a replay and was not saved
C6_Witness ==
    \E a \in CallbackEvents :
        /\ calls[log[a].call].origin = "regular"
        /\ log[a].meta.fromStore
        /\ \A b \in PutEvents : log[b].call # log[a].call

\* C6 as stated: every message of a network historical query is a replay
C6_AllQueriesReplay ==
    /\ \A i \in CallIdx : calls[i].origin \in QueryOrigins => calls[i].fromStorage
    /\ \A a \in LogIdx :
          calls[log[a].call].origin \in QueryOrigins =>
              /\ IsCallback(log[a]) => log[a].meta.fromStore
              /\ ~IsPut(log[a])

(***************************************************************************)
(* C8.  dispatch never raises to its caller: the promise it returns never  *)
(* rejects and no error escapes unhandled, whatever the inbound message    *)
(* (undecryptable, unparsable, without a transport timestamp), whatever    *)
(* the callback and the store do.                                          *)
(***************************************************************************)
C8_NothingEscapes ==
    /\ escaped = {}
    /\ \A i \in CallIdx : calls[i].pc # "rejected"

\* a dispatch met a failure (of parsing, of a callback, of the store) and ended
C8_Witness ==
    \E i \in CallIdx :
        /\ calls[i].pc = "done"
        /\ calls[i].outcome \in {"parse error", "aborted"}

(***************************************************************************)
(* C7.  The duplicate cache is bounded: however many distinct messages are *)
(* dispatched it never holds more than threshold + 1 hashes (threshold     *)
(* 2000 in the new dispatcher, 100 in the old one).                        *)
(***************************************************************************)
C7_CacheBounded == Len(msgHashes) <= CacheThreshold + 1

\* the cache is past its threshold and another hash is being admitted
C7_Witness == Len(msgHashes) > CacheThreshold /\ ~NoneInFlight

(***************************************************************************)
(* C9.  verifySender returns false whenever the signature is absent; when  *)
(* it is present it returns true if and only if the signer recovered from  *)
(* (the JSON text of the envelope without its signature, the signature)    *)
(* is the envelope's claimed signer.                                       *)
(***************************************************************************)
VerifyEvents == {n \in LogIdx : log[n].ev = "verify"}

\* a signer can be recovered from the signature, and it is the claimed one
RecoveredIsClaimed(dmsg) ==
    /\ dmsg.signature.kind = "valid"
    /\ (IF dmsg.signature.over = SigText(dmsg.type, stringifyPlain(dmsg.payload),
                                         dmsg.timestamp, dmsg.signer)
        THEN dmsg.signature.by ELSE "0xunrelated") = dmsg.signer

C9_VerifyIffRecoveredSigner ==
    \A a \in VerifyEvents :
        /\ log[a].dmsg.signature.kind = "none" => log[a].result = "false"
        /\ log[a].dmsg.signature.kind # "none" =>
              (log[a].result = "true" <=> RecoveredIsClaimed(log[a].dmsg))

\* verifySender returned true for a signed envelope, and false for one whose
\* signature was made by another wallet than the claimed signer
C9_Witness ==
    \E a \in VerifyEvents :
        /\ log[a].dmsg.signature.kind = "valid"
        /\ log[a].dmsg.signature.by # log[a].dmsg.signer
        /\ log[a].dmsg.signer # ""
        /\ log[a].result = "false"

(***************************************************************************)
(* C10.  Round trip.  A message emitted with type T and payload P, maybe   *)
(* signed by a wallet and maybe encrypted, then dispatched where a         *)
(* matching key (if one was used) and a registration for T are held:       *)
(* the callback is invoked with the payload as JSON carries it (P itself   *)
(* for a string, a plain object or a Map; the ISO string for a Date), the  *)
(* signer is the wallet's address (none when unsigned), the signature      *)
(* verifies when signed, and the encrypted flag is true exactly when a key *)
(* was used.                                                               *)
(***************************************************************************)
\* the emits that published the message of event e
SentAs(e) == {s \in network.sent : s.msg = e.msg}

\* what the receiver gets for an emitted payload
Arrives(payload) == IF payload.t = "date" THEN StrVal(payload.v) ELSE payload

RoundTripFields(e, s) ==
    /\ e.payload = Arrives(s.payload)
    /\ e.signer = s.wallet
    /\ s.wallet # "" => SignatureGood(e.dmsg)
    /\ e.meta.encrypted <=> s.keyUsed

\* the step that finishes the dispatch of an emitted message invokes the
\* registration when its checks pass
RoundTripDelivers(i) ==
    LET msg == calls[i].msg
        infos == mappingGet(Decoded(msg).type)
    IN (/\ \E s \in network.sent : s.msg = msg
        /\ Parsable(msg)
        /\ infos # <<>>
        /\ ChecksPass(infos[1], msg, Decoded(msg)))
          => InvocationsOf(NewEvents, infos[1].callback) = 1

DecryptEvents == {n \in LogIdx : log[n].ev = "decrypt"}
Decrypting(e) == {k \in 1..Len(e.keys) : CanDecrypt(e.keys[k], e.bytes)}
FirstDecrypting(e) == CHOOSE f \in Decrypting(e) : \A k \in Decrypting(e) : f <= k

C11_FirstKeyWins ==
    \A n \in DecryptEvents :
        LET e == log[n]
        IN Decrypting(e) # {} =>
              /\ e.result.tried = [j \in 1..FirstDecrypting(e) |-> j]
              /\ e.result.encrypted
              /\ e.result.payload = utf8ToBytes(e.bytes.text)
              /\ ~e.result.raised

\* three keys: the first fails, the second decrypts, the third is left alone
C11_Witness ==
    \E n \in DecryptEvents :
        /\ Len(log[n].keys) = 3
        /\ Decrypting(log[n]) # {}
        /\ FirstDecrypting(log[n]) = 2
        /\ log[n].result.tried = <<1, 2>>

(***************************************************************************)
(* C12.  When no registered key decrypts the bytes (also when no key is    *)
(* registered) decrypt does not raise: every registered key was attempted  *)
(* once, the bytes are returned as they came and the encrypted flag is     *)
(* false.                                                                  *)
(***************************************************************************)
C12_NoKeyFallsBackToPlaintext ==
    \A n \in DecryptEvents :
        LET e == log[n]
        IN Decrypting(e) = {} =>
              /\ ~e.result.raised
              /\ e.result.tried = [j \in 1..Len(e.keys) |-> j]
              /\ e.result.payload = e.bytes
              /\ ~e.result.encrypted

\* ciphertext for a key nobody holds, with two keys registered
C12_Witness ==
    \E n \in DecryptEvents :
        /\ Len(log[n].keys) >= 2
        /\ log[n].bytes.enc # "none"
        /\ Decrypting(log[n]) = {}
        /\ Len(log[n].result.tried) = Len(log[n].keys)


(***************************************************************************)
(* C13.  Registration is idempotent: a call of on() with a callback that   *)
(* is already registered for the type leaves the routing table as it is,   *)
(* no callback is in the table twice, and no dispatch call invokes a       *)
(* callback twice.                                                         *)
(***************************************************************************)
\* the application's next call is on() (every on() of the scripts is for "hello")
OnCallStep == app # <<>> /\ Head(app).op = "on" /\ app' = Tail(app)
\* the callback, the very same function, is registered for the type
RegisteredByReference(typ, cb) ==
    \E k \in 1..Len(mapping[typ]) : mapping[typ][k].callback = cb

NoCallbackTwice ==
    /\ \A typ \in MessageTypes : \A k, k2 \in 1..Len(mapping[typ]) :
           mapping[typ][k].callback = mapping[typ][k2].callback => k = k2
    /\ \A a, b \in CallbackEvents :
           (log[a].call = log[b].call /\ log[a].cb = log[b].cb) => a = b

C13_OnIsIdempotent ==
    /\ []NoCallbackTwice
    /\ [][(OnCallStep /\ RegisteredByReference("hello", Head(app).callback))
             => mapping' = mapping]_vars

\* both calls of on() for cbA were made, and cbA received the message
C13_Witness ==
    /\ app = <<>>
    /\ Len(mapping["hello"]) = 1
    /\ mapping["hello"][1].callback = "cbA"
    /\ \E a \in CallbackEvents : log[a].cb = "cbA"

(***************************************************************************)
(* C14.  Callback identity is by reference: a call of on() with a callback *)
(* that is not yet registered for the type, whatever its source text, adds *)
(* a registration for it to the routing table.                             *)
(***************************************************************************)
C14_DistinctCallbacksKept ==
    [][(OnCallStep /\ ~RegisteredByReference("hello", Head(app).callback))
          => /\ Len(mapping'["hello"]) = Len(mapping["hello"]) + 1
             /\ mapping'["hello"][Len(mapping'["hello"])].callback = Head(app).callback]_vars

\* cbA2 was registered first; cbA, another closure of the same text registered
\* after it, is not in the table when the message reaches cbA2
C14_Witness ==
    /\ app = <<>>
    /\ \E a \in CallbackEvents : log[a].cb = "cbA2"
    /\ ~RegisteredByReference("hello", "cbA")


(***************************************************************************)
(* C15.  At most one resubscription sequence is active: the latch is held  *)
(* exactly while a checkSubscription call is between its ping and its      *)
(* finally block, and a checkSubscription call that arrives while the      *)
(* latch is held does nothing (no ping, no subscribe, the attempt counter, *)
(* the subscription and the position of the running sequence unchanged).   *)
(***************************************************************************)
CheckArrives == checks' = checks + 1

C15_OneSequenceAtATime ==
    /\ [](resubscribing <=> checkPc.at # "idle")
    /\ [][(CheckArrives /\ resubscribing)
             => UNCHANGED <<resubscribing, resubscribeAttempts, checkPc, subOps,
                            subscription, transportSubs, filterConnected>>]_vars

\* a check arrived while a sequence was retrying after a failed attempt
C15_Witness ==
    /\ resubscribing
    /\ resubscribeAttempts > 0
    /\ checks = 2

(***************************************************************************)
(* C16.  An attempt made with fewer than MAX_RESUBSCRIBE_ATTEMPTS failures *)
(* counted, while this.subscription is set, subscribes on that object: no  *)
(* unsubscribeAll and no createSubscription come before its subscribe.  An *)
(* attempt made with MAX_RESUBSCRIBE_ATTEMPTS or more failures counted     *)
(* subscribes only after createSubscription resolved in the same attempt,  *)
(* and after unsubscribeAll (resolved or rejected) if a subscription was   *)
(* set.                                                                    *)
(***************************************************************************)
AttemptOps == subOps

SubscribesAsCounted(A, k) ==
    IF A[k].n >= MAX_RESUBSCRIBE_ATTEMPTS
    THEN /\ k > 1
         /\ A[k - 1].op = "createSubscription" /\ A[k - 1].ok /\ A[k - 1].n = A[k].n
         /\ A[k].had => /\ k > 2
                        /\ A[k - 2].op = "unsubscribeAll" /\ A[k - 2].n = A[k].n
    ELSE A[k].had => /\ k > 1
                     /\ A[k - 1].op \notin {"createSubscription", "unsubscribeAll"}

\* subOps keeps what came before the call that settled last
C16_RecreateOnlyAfterMaxAttempts ==
    (AttemptOps # <<>> /\ AttemptOps[Len(AttemptOps)].op = "subscribe")
        => SubscribesAsCounted(AttemptOps, Len(AttemptOps))

\* one sequence: a subscribe on the existing object failed with fewer than
\* five failures counted, and with five counted the subscription was torn
\* down, created anew and subscribed
C16_Witness ==
    \E k \in 1..Len(AttemptOps) :
        /\ AttemptOps[k].op = "subscribe" /\ ~AttemptOps[k].ok
        /\ AttemptOps[k].n < MAX_RESUBSCRIBE_ATTEMPTS /\ AttemptOps[k].had
        /\ k + 3 <= Len(AttemptOps)
        /\ AttemptOps[k + 1].op = "unsubscribeAll"
        /\ AttemptOps[k + 2].op = "createSubscription"
        /\ AttemptOps[k + 3].op = "subscribe" /\ AttemptOps[k + 3].ok
        /\ AttemptOps[k + 3].n >= MAX_RESUBSCRIBE_ATTEMPTS /\ AttemptOps[k + 3].had

(***************************************************************************)
(* C17.  After a subscribe call of a resubscription sequence resolved, the *)
(* query comes next and no other subscribe call is made before the         *)
(* sequence ends; the sequence ends with the counter at 0 and              *)
(* filterConnected true, and the counter is 0 whenever no sequence is      *)
(* active.                                                                 *)
(***************************************************************************)
NoSubscribeAfterSuccess(A) ==
    \A k \in 1..Len(A) :
        (A[k].op = "subscribe" /\ A[k].ok) =>
            /\ k < Len(A) => A[k + 1].op = "query"
            /\ \A j \in (k + 1)..Len(A) :
                   A[j].op = "subscribe" => \E d \in (k + 1)..(j - 1) : A[d].op = "done"

C17_SuccessEndsTheSequence ==
    /\ NoSubscribeAfterSuccess(AttemptOps)
    /\ ~resubscribing => resubscribeAttempts = 0
    /\ (subOps # <<>> /\ subOps[Len(subOps)].op = "done")
          => filterConnected /\ resubscribeAttempts = 0

\* a subscribe resolved, the query after it rejected, and subscribe was
\* called again
C17_Witness ==
    \E k \in 1..Len(AttemptOps) :
        /\ AttemptOps[k].op = "subscribe" /\ AttemptOps[k].ok
        /\ k + 2 <= Len(AttemptOps)
        /\ AttemptOps[k + 1].op = "query" /\ ~AttemptOps[k + 1].ok
        /\ AttemptOps[k + 2].op = "subscribe"


(***************************************************************************)
(* Steps of stop().  StopCall is the call; StopCompletes is the step in    *)
(* which stop() runs to its end: the call itself when nothing is awaited,  *)
(* or the step in which the awaited unsubscribeAll resolves (when it       *)
(* rejects, stop() rejects and the cache is not reset).                    *)
(***************************************************************************)
StopCall == app # <<>> /\ Head(app).op = "stop" /\ app' = Tail(app)
StopCompletes ==
    \/ StopCall /\ stopPc' = "idle"
    \/ stopPc = "unsubscribe" /\ stopPc' = "idle" /\ epoch' = epoch + 1

(***************************************************************************)
(* C18.  When stop() completes the subscription state is Disconnected: no  *)
(* subscription handle, nothing the transport still pushes, filterConnected*)
(* false; and a dispatcher that is not running and Disconnected stays      *)
(* Disconnected.                                                           *)
(***************************************************************************)
Disconnected == ~subscription.obj /\ transportSubs = {} /\ ~filterConnected

C18_StopDisconnects ==
    /\ [][StopCompletes => Disconnected']_vars
    /\ [][(Disconnected /\ ~running /\ ~running') => Disconnected']_vars

\* stop() has completed after a subscription was opened, and filterConnected
\* is still true
C18_Witness ==
    /\ ~running /\ stopPc = "idle" /\ startPc.at = "idle"
    /\ mapping = NoMapping /\ msgHashes = <<>> /\ epoch > 0
    /\ ~subscription.obj
    /\ filterConnected

(***************************************************************************)
(* C19.  Once stop() was called no heartbeat or reconciliation timer is    *)
(* installed: while the dispatcher is not running, hearbeatInterval is not *)
(* set, also when a start() call was in flight at the time of stop().      *)
(***************************************************************************)
C19_NoTimerOnceStopped == ~running => hearbeatInterval # "set"

\* stop() ran while start() was waiting, and start() installed the timer
\* afterwards
C19_Witness ==
    /\ ~running /\ stopPc = "idle" /\ app = <<>>
    /\ hearbeatInterval = "set"

(***************************************************************************)
(* C20.  When stop() completes the duplicate cache and the routing table   *)
(* are empty; and a dispatch is refused as a duplicate only if the hash    *)
(* was admitted since the cache was last emptied, so a message dispatched  *)
(* before stop() is admitted again afterwards.                             *)
(***************************************************************************)
RefusedOnlyWithinSession ==
    \A i \in CallIdx :
        calls[i].outcome = "duplicate" =>
            \E j \in CallIdx \ {i} :
                /\ HashOf(calls[j].msg) = HashOf(calls[i].msg)
                /\ calls[j].session = calls[i].session
                /\ calls[j].outcome # "duplicate"

C20_StopEmptiesCacheAndTable ==
    /\ []RefusedOnlyWithinSession
    /\ [][StopCompletes => (msgHashes' = <<>> /\ mapping' = NoMapping)]_vars

\* the callback registered again after stop() receives, after the restart,
\* the message the first registration had received before stop()
C20_Witness ==
    \E a, b \in CallbackEvents :
        /\ log[a].hash = log[b].hash
        /\ SessionOf(log[a]) < SessionOf(log[b])
        /\ running /\ app = <<>>


(***************************************************************************)
(* C21.  When stop() completes no decryption key is registered and no      *)
(* auto-encrypt default is set, so no callback invoked after stop() is     *)
(* told that its message was encrypted unless a key was registered since.  *)
(***************************************************************************)
C21_StopForgetsKeys ==
    [][StopCompletes => (decryptionKeys' = <<>> /\ ~autoEncrypt')]_vars

\* after stop() and the restart, with no registerKey call in between, a
\* callback is told that the message encrypted for the old key was encrypted
C21_Witness ==
    \E a \in CallbackEvents :
        /\ SessionOf(log[a]) >= 2
        /\ log[a].meta.encrypted
        /\ running /\ app = <<>>

(***************************************************************************)
(* C22: the reconciliation query runs as part of start(), so that a        *)
(* start() that has returned has issued it; and the query that follows a   *)
(* successful resubscription has its window start at the time the last     *)
(* successful query ended.                                                 *)
(***************************************************************************)
StartReturns == startPc.at = "subscribe" /\ startPc'.at = "idle"
Succeeded == {queries[o].settled : o \in {q \in QueryOrigins : queries[q].state = "ok"}}
LastOf(S) == CHOOSE t \in S : \A u \in S : u <= t
ResubscribeQueryIssued ==
    queries["resubscribe"].state # "open" /\ queries'["resubscribe"].state = "open"

C22_ReconcileAtStartAndResubscribe ==
    [][/\ StartReturns => queries'["startup"].state # "none"
       /\ (ResubscribeQueryIssued /\ Succeeded # {})
             => queries'["resubscribe"].timeStart = LastOf(Succeeded)]_vars

\* the query of a resubscription, issued some time after the query of
\* dispatchLocalQuery succeeded
C22_Witness ==
    /\ queries["startup"].state = "ok"
    /\ queries["resubscribe"].state = "open"
    /\ queries["resubscribe"].at > queries["startup"].settled

(***************************************************************************)
(* C25: dispatchLocalQuery replays every locally stored message exactly    *)
(* once, in non-decreasing order of transport timestamp, the messages      *)
(* without a timestamp after all that have one, whatever the store holds.  *)
(* Stated of a call that has left its replay loop: the dispatch calls it   *)
(* made are the records getAll returned, one call each, in that order; and *)
(* of the call's first step: the array it loops over holds every record of *)
(* the store once.                                                         *)
(***************************************************************************)
IsLocalCall(c) == c.origin = "local"
Replayed == SelectSeq(calls, IsLocalCall)
ReplayOver == localPc.at \in {"query", "done", "rejected"}

InReplayOrder(msgs) ==
    \A j, k \in 1..Len(msgs) :
        j < k => \/ msgs[k].dmsg.timestamp = 0
                 \/ /\ msgs[j].dmsg.timestamp # 0
                    /\ msgs[j].dmsg.timestamp <= msgs[k].dmsg.timestamp

EveryRecordOnce(msgs, dbv) ==
    /\ Len(msgs) = Cardinality(dbv)
    /\ {msgs[k] : k \in 1..Len(msgs)} = dbv

C25_ReplaysAllInOrder ==
    /\ [](ReplayOver =>
            /\ InReplayOrder(localPc.messages)
            /\ Len(Replayed) = Len(localPc.messages)
            /\ \A k \in 1..Len(Replayed) : Replayed[k].msg = localPc.messages[k].dmsg)
    /\ [][localPc.at # "replay" /\ localPc'.at = "replay"
            => EveryRecordOnce(localPc'.messages, db)]_vars

\* a call that ended after it replayed a message with a timestamp, with two
\* messages without a timestamp in the store
C25_Witness ==
    /\ ReplayOver
    /\ Len(localPc.messages) >= 3
    /\ localPc.messages[1].dmsg.timestamp # 0
    /\ Replayed # <<>> /\ Replayed[1].pc = "done"
    /\ \E j, k \in 1..Len(localPc.messages) :
          j # k /\ localPc.messages[j].dmsg.timestamp = 0
                /\ localPc.messages[k].dmsg.timestamp = 0

(***************************************************************************)
(* C26: dispatchLocalQuery issues its network query only after every local *)
(* message has been replayed, and takes the window from the local history: *)
(* [maximum local timestamp - 360 s, now + 3600 s] if a replayed message   *)
(* had a timestamp, else (new) [now - 8 h, now + 1 h].                     *)
(***************************************************************************)
LocalTimestamps ==
    {localPc.messages[k].dmsg.timestamp : k \in 1..Len(localPc.messages)} \ {0}
Latest(S) == CHOOSE t \in S : \A u \in S : u <= t

QueryIssued == queries["startup"].state # "open" /\ queries'["startup"].state = "open"

WindowFromHistory(q) ==
    IF LocalTimestamps # {}
    THEN /\ q.filtered /\ q.live
         /\ q.timeStart = Latest(LocalTimestamps) - 360 * MsPerSecond
         /\ q.timeEnd = clock + 3600 * MsPerSecond
    ELSE version = "new" =>
         /\ q.filtered /\ q.live
         /\ q.timeStart = clock - 8 * 3600 * MsPerSecond
         /\ q.timeEnd = clock + 3600 * MsPerSecond

AllReplayed ==
    /\ Len(Replayed) = Len(localPc.messages)
    /\ \A k \in 1..Len(Replayed) :
          Replayed[k].msg = localPc.messages[k].dmsg /\ Replayed[k].pc = "done"

Connected == subscription.obj /\ filterConnected /\ ~resubscribing
PeerDisconnects == disconnects' = disconnects + 1

C27_DisconnectResubscribes ==
    [][PeerDisconnects /\ Connected => resubscribing' /\ checkPc'.at = "ping"]_vars

\* a peer disconnected from a connected dispatcher, which is still as it was
C27_Witness ==
    /\ disconnects > 0
    /\ running /\ Connected
    /\ checks = 0


(***************************************************************************)
(* C23: every call of emit settles with a boolean: true when the           *)
(* transport's send reported at least one successful delivery of the       *)
(* message, false in every other case.                                     *)
(***************************************************************************)
Delivered(c) == c.sent /\ ~c.res.threw /\ c.res.successes > 0

C23_EmitReturnsDelivered ==
    \A i \in 1..Len(returned) :
        returned[i].ret = Returns("boolean", Delivered(returned[i]))

\* an emit whose send reported a delivery has settled without rejecting
C23_Witness ==
    \E i \in 1..Len(returned) :
        /\ Delivered(returned[i])
        /\ returned[i].ret.kind # "rejected"

(***************************************************************************)
(* C24: when the transport's publish fails, by reporting no successful     *)
(* delivery or by failing with an error, emit settles with false, no error *)
(* leaves it, and the registrations, the keys, the duplicate cache and the *)
(* subscription are as they were before the call.                          *)
(***************************************************************************)
PublishFailed(c) == c.sent /\ (c.res.threw \/ c.res.successes = 0)

EmitSettles == Len(returned') = Len(returned) + 1

C24_PublishFailureContained ==
    /\ [](\A i \in 1..Len(returned) :
            PublishFailed(returned[i]) => returned[i].ret = Returns("boolean", FALSE))
    /\ [][EmitSettles /\ PublishFailed(returned'[Len(returned')])
            => UNCHANGED <<mapping, keyVars, msgHashes, subscription>>]_vars

\* an emit has settled whose send failed with an error
C24_Witness ==
    \E i \in 1..Len(returned) : returned[i].sent /\ returned[i].res.threw

(***************************************************************************)
(* C29: the bytes emit hands to the transport are encrypted with the       *)
(* explicit key and its kind when one is given, whether or not an          *)
(* auto-encrypt default is registered; with the default key when no key is *)
(* given and a default is registered; not at all when the argument is      *)
(* false, or when no key is given and no default is registered.            *)
(***************************************************************************)
AutoKeySet == autoEncrypt /\ autoEncryptKeyId # -1

ExpectedBytes(c) ==
    CASE c.encryptionKey.kind = "false" -> c.plain
      [] c.encryptionKey.kind = "raw" ->
            encryptBytes(Asymetric, c.encryptionKey.key, c.plain)
      [] c.encryptionKey.kind = "Key" ->
            encryptBytes(c.encryptionKey.type, c.encryptionKey.key, c.plain)
      [] OTHER ->
            IF AutoKeySet
            THEN encryptBytes(decryptionKeys[autoEncryptKeyId + 1].type,
                              decryptionKeys[autoEncryptKeyId + 1].key, c.plain)
            ELSE c.plain

C29_ExplicitKeyWins ==
    \A i \in 1..Len(returned) :
        returned[i].sent => returned[i].bytes = ExpectedBytes(returned[i])

\* an emit with an explicit key has reached the transport while an
\* auto-encrypt default was registered
C29_Witness ==
    \E i \in 1..Len(returned) :
        /\ returned[i].sent
        /\ returned[i].encryptionKey.kind \in {"raw", "Key"}
        /\ AutoKeySet


(***************************************************************************)
(* C28: while the dispatcher is running with a subscription, the content   *)
(* topics the subscription was opened for include the default topic and    *)
(* the topic of every registration in mapping, whether the registration    *)
(* was made before start(), after it, or before a resubscription.  The     *)
(* subscription is open in Connected; during a resubscription the new      *)
(* subscription object exists before its subscribe call has settled.       *)
(***************************************************************************)
\* the content topics of the registrations; a registration of the old
\* snapshot has no content topic of its own and is on the default one
RegisteredTopics ==
    {DefaultTopic} \cup (Decoders \ {""})

C28_SubscriptionCoversRegistrations ==
    running /\ Connected => RegisteredTopics \subseteq subscription.topics

\* a running dispatcher with a subscription and a registration on the other
\* content topic, all calls of the application made
C28_Witness ==
    /\ running /\ Connected
    /\ OtherTopic \in RegisteredTopics
    /\ app = <<>>


(***************************************************************************)
(* C30: a drain of the retry queue resends the oldest entry first; an      *)
(* entry whose resend succeeded leaves the queue and is never sent again;  *)
(* at the first resend that fails the drain ends, and the entry and all    *)
(* later ones stay queued in their order.                                  *)
(***************************************************************************)
ResendSettles == Len(resent') = Len(resent) + 1
ResendSucceeded(r) == ~r.res.threw /\ r.res.failures = 0

C30_DrainRemovesWhatItSent ==
    /\ [](\A i, j \in 1..Len(resent) :
            i < j /\ ResendSucceeded(resent[i]) => resent[j].entry # resent[i].entry)
    /\ [][ResendSettles =>
            /\ resent'[Len(resent')].entry = Head(emitCache)
            /\ IF ResendSucceeded(resent'[Len(resent')])
               THEN emitCache' = Tail(emitCache)
               ELSE emitCache' = emitCache /\ reemitPc'.at = "idle"]_vars

\* a drain of two queued entries has resent with success
C30_Witness ==
    /\ Len(emitCache) >= 2
    /\ \E i \in 1..Len(resent) : ResendSucceeded(resent[i])


(***************************************************************************)
(* C31: one drain at a time.  A call of emitFromCache made while another   *)
(* call is between its first send and its end returns at once: it sends    *)
(* nothing and leaves the queue, the latch and the running drain's         *)
(* position as they were.                                                  *)
(***************************************************************************)
DrainInProgress == reemitPc.at # "idle"
DrainCalled == drains'.calls = drains.calls + 1

C31_OneDrainAtATime ==
    /\ [](DrainInProgress => reemitting)
    /\ [][DrainCalled /\ DrainInProgress
            => UNCHANGED <<emitCache, resent, reemitting, reemitPc, network>>]_vars

\* a call was refused while a drain, still running, awaited a send
C31_Witness ==
    /\ drains.refused > 0
    /\ reemitPc.at = "send"

(***************************************************************************)
(* C37: every drain releases its latch when it ends, on every path out of  *)
(* it, the path of a send that fails with an error included: when no       *)
(* drain is running the latch is free, so a later call can drain.          *)
(***************************************************************************)
C37_LatchReleased == ~DrainInProgress => ~reemitting

\* a drain has ended on a send that rejected
C37_Witness ==
    /\ ~DrainInProgress
    /\ \E i \in 1..Len(resent) : resent[i].res.threw


(***************************************************************************)
(* C32: emit never puts a message into the retry queue: whatever the sends *)
(* of the emits so far settled with, and whatever on, start, stop and      *)
(* dispatch did in between, emitCache is empty.                            *)
(***************************************************************************)
C32_EmitNeverEnqueues == emitCache = <<>>

\* an emit has settled whose send reported a failure, and the dispatcher has
\* since been stopped
C32_Witness ==
    /\ \E i \in 1..Len(returned) :
          returned[i].sent /\ ~returned[i].res.threw /\ returned[i].res.failures > 0
    /\ ~running


(***************************************************************************)
(* C38: the periodic query leaves no gap.  When dispatchRegularQuery       *)
(* issues a query and the query before it succeeded, the new window starts *)
(* no later than the window of that query ended, however long that query   *)
(* took.                                                                   *)
(***************************************************************************)
RegularQueryIssued ==
    /\ queries'["regular"] # queries["regular"]
    /\ queries'["regular"].state = "open"

C38_NoGapAfterSuccess ==
    [][RegularQueryIssued /\ queries["regular"].state = "ok"
         => queries'["regular"].timeStart <= queries["regular"].timeEnd]_vars

\* a periodic query is open that was issued after an earlier one had succeeded
\* at a later time than the dispatcher was made
C38_Witness ==
    /\ queries["regular"].state = "open"
    /\ queries["regular"].timeStart > StartOfTime - 300 * 1000


(***************************************************************************)
(* C34: the hash of a message is in the duplicate cache from the moment a  *)
(* dispatch call has passed the duplicate check, whatever that call then   *)
(* does, until the session ends; so every other call for the message in    *)
(* the session is refused as a duplicate and invokes nothing, also when    *)
(* the first call reached no callback and a registration or a key for the  *)
(* message has been added since.                                           *)
(***************************************************************************)
NoCallbackFor(j) == \A a \in CallbackEvents : log[a].call # j

C34_HashRecordedWhateverTheOutcome ==
    /\ \A i \in CallIdx :
          (Admitted(i) /\ calls[i].session = epoch)
              => IsDuplicate(msgHashes, HashOf(calls[i].msg))
    /\ \A i, j \in CallIdx :
          (i # j /\ Admitted(i) /\ calls[j].session = calls[i].session
                /\ calls[j].msg = calls[i].msg)
              => calls[j].outcome = "duplicate" /\ NoCallbackFor(j)

\* the first call for a message found no registration for its type or could
\* not read it; a registration and, where needed, a key are there now, and a
\* later call for the message in the same session was refused
C34_Witness ==
    \E i, j \in CallIdx :
        /\ i < j
        /\ calls[i].pc = "done"
        /\ calls[i].outcome \in {"unknown type", "parse error"}
        /\ calls[j].msg = calls[i].msg
        /\ calls[j].session = calls[i].session
        /\ calls[j].outcome = "duplicate"
        /\ mappingGet("hello") # <<>>
        /\ Parsable(calls[i].msg)


(***************************************************************************)
(* C35: when the callback of a registration throws, dispatch still         *)
(* resolves; the registrations after it in the list are not invoked by     *)
(* that call; and no other call of the session invokes any registration    *)
(* for that message, whose hash stays recorded.                            *)
(***************************************************************************)
Threw(a) == log[a].result = "threw"

C35_ThrowEndsDeliveryForSession ==
    \A a \in CallbackEvents :
        Threw(a) =>
            /\ calls[log[a].call].pc = "done"
            /\ Escape(log[a].call, "dispatch rejected") \notin escaped
            /\ \A b \in LogIdx : b > a => log[b].call # log[a].call
            /\ \A b \in CallbackEvents :
                  (log[b].hash = log[a].hash /\ SessionOf(log[b]) = SessionOf(log[a]))
                      => log[b].call = log[a].call

\* a callback threw with a registration behind it that would have passed, and
\* a later call for the message in the same session was refused
C35_Witness ==
    \E a \in CallbackEvents : \E j \in CallIdx :
        /\ Threw(a)
        /\ Len(mappingGet("hello")) >= 2
        /\ mappingGet("hello")[1].callback = log[a].cb
        /\ ChecksPass(mappingGet("hello")[2], log[a].msg, log[a].dmsg)
        /\ j > log[a].call
        /\ calls[j].msg = log[a].msg
        /\ calls[j].session = SessionOf(log[a])
        /\ calls[j].outcome = "duplicate"


(***************************************************************************)
(* C36: a start() that fails, while it waits for the peers or while it     *)
(* opens the subscription, leaves the dispatcher not running and without a *)
(* heartbeat timer; the next start() call goes through the startup again.  *)
(***************************************************************************)
StartFails ==
    /\ startPc.at \in {"waitPeer", "subscribe"}
    /\ startPc'.at = "idle"
    /\ ~subscription'.obj

StartCalled == app # <<>> /\ Head(app).op = "start" /\ app' = Tail(app)

C36_FailedStartCanBeRetried ==
    /\ [][StartFails => ~running' /\ hearbeatInterval' # "set"]_vars
    /\ [][StartCalled /\ startPc.at = "idle" /\ ~subscription.obj
            => startPc'.at = "waitPeer"]_vars

\* start() failed and start() was called again
C36_Witness ==
    /\ app = <<>>
    /\ startPc.at = "idle"
    /\ ~subscription.obj

(***************************************************************************)
(* C33: persistence is idempotent.  A Store.set of a record whose hash is  *)
(* already in the object store, where nothing but the existing key stands  *)
(* in the way of the add, neither throws nor rejects; it leaves the object *)
(* store as it was; and the object store never holds two records of one    *)
(* hash.                                                                   *)
(***************************************************************************)
DuplicateSets ==
    {k \in 1..Len(idb.sets) :
        idb.sets[k].existed /\ idb.sets[k].met \in {"none", "otherMessage"}}

OnePerHash == \A r1, r2 \in db : r1.hash = r2.hash => r1 = r2

SetOfStoredHash ==
    /\ Len(idb'.sets) = Len(idb.sets) + 1
    /\ idb'.sets[Len(idb'.sets)].existed

C33_SetIsIdempotent ==
    /\ [](\A k \in DuplicateSets : idb.sets[k].result = "ok")
    /\ []OnePerHash
    /\ [][SetOfStoredHash => db' = db]_vars

\* a set of a stored hash has been made on an engine of either wording
C33_Witness ==
    \E j, k \in DuplicateSets : idb.sets[j].met = "none" /\ idb.sets[k].met = "otherMessage"

(***************************************************************************)
(* C40: Store.ready() completes.  Every promise ready() returned is        *)
(* eventually settled, whether the call came before or after the open      *)
(* request finished; it is resolved only when the database was opened and  *)
(* rejected only when the opening failed.                                  *)
(***************************************************************************)
ReadyCalled(i) == i <= Len(idb.readies)
ReadySettled(i) == i <= Len(idb.readies) /\ idb.readies[i].state # "pending"

SettledAsOpened ==
    \A i \in 1..Len(idb.readies) :
        /\ idb.readies[i].state = "resolved" => idb.open = "success"
        /\ idb.readies[i].state = "rejected" => idb.open = "error"

C40_ReadyCompletes ==
    /\ \A i \in 1..MaxReady : ReadyCalled(i) ~> ReadySettled(i)
    /\ []SettledAsOpened

\* ready() was called before the open request failed and again after it
C40_Witness ==
    /\ idb.open = "error"
    /\ Len(idb.readies) = 2
    /\ idb.readies[1].state = "rejected"

(***************************************************************************)
(* C39: the singleton factory.  At most one Dispatcher is constructed      *)
(* until destroyDispatcher is called; a getDispatcher call made when no    *)
(* construction is in progress and one has finished returns the instance   *)
(* that was constructed; a call made while a construction is in progress   *)
(* returns null.                                                           *)
(***************************************************************************)
GetReturned ==
    /\ factory'.gets = factory.gets + 1
    /\ Len(factory'.returns) = Len(factory.returns) + 1

LastReturn == factory'.returns[Len(factory'.returns)]

OneConstruction == factory.built <= 1

C39_OneDispatcherAtATime ==
    /\ []OneConstruction
    /\ [][GetReturned /\ ~factory.initializing => LastReturn.value = factory.made]_vars
    /\ [][GetReturned /\ factory.initializing => LastReturn.value = 0]_vars

\* one call has constructed and started a Dispatcher, another call was made
\* while it was doing so and a third after it had finished
C39_Witness ==
    /\ factory.made = 1
    /\ \E i, j, k \in 1..Len(factory.returns) :
          /\ factory.returns[i].own /\ factory.returns[i].value = 1
          /\ factory.returns[j].busy
          /\ ~factory.returns[k].busy /\ ~factory.returns[k].own

====
